---- MODULE Spec2Model ----
(***************************************************************************)
(* Model of the Monte Carlo Total Economic Value engine of PINECONe        *)
(* (src/src/pinecone/economics/tev_calculator.py).                         *)
(*                                                                         *)
(* Numbers.  Python floats and ints are modelled as fixed-point integers   *)
(* counted in thousandths (25.0 is 25000, 0.055 is 55, 13.37 * 0.1 is      *)
(* 1337); products are rescaled by FMul and quotients by FDiv.             *)
(*                                                                         *)
(* Python values.  A scalar is a record [k, v] whose kind k is "int",      *)
(* "float", "none" or "str" and whose v is the number in thousandths (0    *)
(* for None and for a string).  A parameter value is a record [k, m, s]:   *)
(* k = "tuple" for a (mean, std) tuple, k = "scalar" for anything else     *)
(* (the value is m).  A dict is a function over its keys; an object that   *)
(* may be None or a dict is a record [k, d].  A dict whose enumeration     *)
(* order matters is a record [order, at].  A string that the code searches *)
(* or rewrites (a zone name) is the sequence of its characters.            *)
(***************************************************************************)
EXTENDS Integers, Sequences, FiniteSets, TLC

(***************************************************************************)
(* Bounds of the model.                                                    *)
(***************************************************************************)
MaxZones == 2

MaxSims == 2

MaxRuns == 2

(***************************************************************************)
(* Python values.                                                          *)
(***************************************************************************)
PyInt(n) == [k |-> "int", v |-> n * 1000]

PyFloat(milli) == [k |-> "float", v |-> milli]

PyNone == [k |-> "none", v |-> 0]

PyStr == [k |-> "str", v |-> 0]

IsNumber(x) == x.k \in {"int", "float"}

Fixed(x) == [k |-> "scalar", m |-> x, s |-> PyNone]

Tuple2(m, s) == [k |-> "tuple", m |-> m, s |-> s]

EmptyDict == [key \in {} |-> PyNone]

DictObj(d) == [k |-> "dict", d |-> d]

NoneObj == [k |-> "none", d |-> EmptyDict]

\* bool(x) of an object that is None or a dict
Truthy(o) == o.k = "dict" /\ DOMAIN o.d # {}

\* the elements of a list
Range(seq) == {seq[i] : i \in 1..Len(seq)}

\* d.get(key, default)
Get(d, key, default) == IF key \in DOMAIN d THEN d[key] ELSE default

(***************************************************************************)
(* Fixed-point arithmetic in thousandths.  FMul(a, b) is floor(a*b/1000),  *)
(* computed on the split operands so that no intermediate product leaves   *)
(* the range of TLC's integers.                                            *)
(***************************************************************************)
FMul(a, b) ==
    LET ah == a \div 1000
        al == a % 1000
        bh == b \div 1000
        bl == b % 1000
    IN  ah * bh * 1000 + ah * bl + al * bh + (al * bl) \div 1000

(***************************************************************************)
(* Strings as character sequences: 'pat in s' and s.replace(pat, '').      *)
(***************************************************************************)
StartsWith(s, pat) == Len(s) >= Len(pat) /\ SubSeq(s, 1, Len(pat)) = pat

Contains(s, pat) ==
    \E i \in 1..(Len(s) + 1) : StartsWith(SubSeq(s, i, Len(s)), pat)

RECURSIVE Remove(_, _)
Remove(s, pat) ==
    IF s = <<>> THEN <<>>
    ELSE IF StartsWith(s, pat) THEN Remove(SubSeq(s, Len(pat) + 1, Len(s)), pat)
    ELSE <<Head(s)>> \o Remove(Tail(s), pat)

LLP == <<"_", "L", "L", "P">>
CS1 == <<"C", "S", "1">>
CS2 == <<"C", "S", "2">>
CS3 == <<"C", "S", "3">>

(***************************************************************************)
(* get_default_params_for_zone: the zone-class default table, selected by  *)
(* substring match on the zone name.  No row has an epsilon_t entry.       *)
(***************************************************************************)
SevereRow ==
    [E_Pt |-> Tuple2(PyFloat(7500), PyInt(1)),
     g |-> Tuple2(PyInt(375), PyInt(50)),
     endangered_species_WTP |-> Tuple2(PyFloat(1337), PyInt(1)),
     R_t_lease |-> <<50000, 20000, 0, 0, 0>>,
     T_lease |-> Fixed(PyInt(5)),
     r_lease |-> Fixed(PyFloat(60))]

MitigatedRow ==
    [E_Pt |-> Tuple2(PyInt(21), PyInt(3)),
     g |-> Tuple2(PyInt(200), PyInt(30)),
     endangered_species_WTP |-> Tuple2(PyFloat(6685), PyInt(2)),
     R_t_lease |-> <<200000, 100000, 50000, 20000, 10000>>,
     T_lease |-> Fixed(PyInt(5)),
     r_lease |-> Fixed(PyFloat(55))]

HealthyRow ==
    [E_Pt |-> Tuple2(PyInt(36), PyInt(5)),
     g |-> Tuple2(PyInt(50), PyInt(10)),
     endangered_species_WTP |-> Tuple2(PyFloat(13370), PyInt(3)),
     R_t_lease |-> <<700000, 700000, 700000, 700000, 700000>>,
     T_lease |-> Fixed(PyInt(5)),
     r_lease |-> Fixed(PyFloat(50))]

GenericRow ==
    [E_Pt |-> Tuple2(PyInt(25), PyInt(3)),
     g |-> Tuple2(PyInt(200), PyInt(30)),
     endangered_species_WTP |-> Tuple2(PyFloat(13370), PyInt(2)),
     R_t_lease |-> <<200000, 200000, 200000, 200000, 200000>>,
     T_lease |-> Fixed(PyInt(5)),
     r_lease |-> Fixed(PyFloat(50))]

\* the table with the mitigated class tested before the severe class
get_default_params_mitigated_first(zone_name) ==
    IF Contains(zone_name, CS2) THEN MitigatedRow
    ELSE IF Contains(zone_name, CS1) THEN SevereRow
    ELSE IF Contains(zone_name, CS3) THEN HealthyRow
    ELSE GenericRow

get_default_params_for_zone(zone_name) ==
    IF Contains(zone_name, CS1) THEN SevereRow
    ELSE IF Contains(zone_name, CS2) THEN MitigatedRow
    ELSE IF Contains(zone_name, CS3) THEN HealthyRow
    ELSE GenericRow

(***************************************************************************)
(* create_economic_parameters, one zone.                                   *)
(*   biomass_stats      ordered dict  zone -> None | dict                  *)
(*   emissions_stats    dict          zone -> None | dict                  *)
(*   water_yield_stats  None | dict   zone -> None | dict                  *)
(*   user_params        None | dict   zone -> dict of fields               *)
(***************************************************************************)
\* V_t: the biomass pair, each value defaulting to 0 when its key is absent
BiomassPair(biomass_data) ==
    Tuple2(Get(biomass_data, "AGB_per_acre_tons", PyInt(0)),
           Get(biomass_data, "AGB_StdDev_per_acre_tons", PyInt(0)))

\* a * b of two Python values, defined when both are numbers
PyMul(a, b) == PyFloat(FMul(a.v, b.v))

\* the emissions pair with the price applied to the mean alone
CarbonPairMeanOnly(emissions_data, carbon_credit_price) ==
    Tuple2(PyMul(Get(emissions_data, "CO2_mean_tons_per_acre", PyInt(0)),
                 carbon_credit_price),
           Get(emissions_data, "CO2_std_tons_per_acre", PyInt(0)))

\* pvc_per_acre: the emissions pair times the carbon credit price
CarbonPair(emissions_data, carbon_credit_price) ==
    Tuple2(PyMul(Get(emissions_data, "CO2_mean_tons_per_acre", PyInt(0)),
                 carbon_credit_price),
           PyMul(Get(emissions_data, "CO2_std_tons_per_acre", PyInt(0)),
                 carbon_credit_price))

\* the multiplication by the price raises TypeError on None or a string
CarbonRaises(emissions_data) ==
    \/ ~IsNumber(Get(emissions_data, "CO2_mean_tons_per_acre", PyInt(0)))
    \/ ~IsNumber(Get(emissions_data, "CO2_std_tons_per_acre", PyInt(0)))

WaterFallback == Tuple2(PyFloat(100000), PyFloat(2000))

\* the water-yield entry looked up under the zone name itself
WaterKeyUnstripped(zone_name) == zone_name

\* the key under which a zone's water-yield entry is looked up
WaterKey(zone_name) == Remove(zone_name, LLP)

\* the water entry is used: the stats are truthy, hold the key, and the
\* entry is a non-empty dict
WaterEntryUsed(zone_name, water_yield_stats) ==
    /\ Truthy(water_yield_stats)
    /\ WaterKey(zone_name) \in DOMAIN water_yield_stats.d
    /\ Truthy(water_yield_stats.d[WaterKey(zone_name)])

\* the water-yield input indexed without testing that it holds the key
WaterRaisesOnAbsentKey(zone_name, water_yield_stats) ==
    ~(Truthy(water_yield_stats) /\ zone_name \in DOMAIN water_yield_stats.d)

\* water_value * 0.1, the default argument of the std lookup, is evaluated
\* whether or not the std key is present
WaterRaises(zone_name, water_yield_stats) ==
    /\ WaterEntryUsed(zone_name, water_yield_stats)
    /\ ~IsNumber(Get(water_yield_stats.d[WaterKey(zone_name)].d,
                     "water_yield_per_acre_usd", PyInt(0)))

\* the water pair read from the entry under the zone name itself when
\* there is one, and from the entry under the stripped name otherwise
WaterPairFullNameFirst(zone_name, water_yield_stats) ==
    IF /\ Truthy(water_yield_stats)
       /\ zone_name \in DOMAIN water_yield_stats.d
       /\ Truthy(water_yield_stats.d[zone_name])
    THEN LET water_data == water_yield_stats.d[zone_name].d
             water_value == Get(water_data, "water_yield_per_acre_usd", PyInt(0))
             water_std == Get(water_data, "water_yield_std_per_acre_usd",
                              PyFloat(FMul(water_value.v, 100)))
         IN  Tuple2(water_value, water_std)
    ELSE IF WaterEntryUsed(zone_name, water_yield_stats)
    THEN LET water_data == water_yield_stats.d[WaterKey(zone_name)].d
             water_value == Get(water_data, "water_yield_per_acre_usd", PyInt(0))
             water_std == Get(water_data, "water_yield_std_per_acre_usd",
                              PyFloat(FMul(water_value.v, 100)))
         IN  Tuple2(water_value, water_std)
    ELSE WaterFallback

WaterPair(zone_name, water_yield_stats) ==
    IF WaterEntryUsed(zone_name, water_yield_stats)
    THEN LET water_data == water_yield_stats.d[WaterKey(zone_name)].d
             water_value == Get(water_data, "water_yield_per_acre_usd", PyInt(0))
             water_std == Get(water_data, "water_yield_std_per_acre_usd",
                              PyFloat(FMul(water_value.v, 100)))
         IN  Tuple2(water_value, water_std)
    ELSE WaterFallback

\* the zone has an entry in user_params
HasUserEntry(zone_name, user_params) ==
    Truthy(user_params) /\ zone_name \in DOMAIN user_params.d

\* the zone's entry completed with the row of the zone's class
ZoneUserParamsOverClassRow(zone_name, user_params) ==
    IF HasUserEntry(zone_name, user_params)
    THEN user_params.d[zone_name] @@ get_default_params_for_zone(zone_name)
    ELSE get_default_params_for_zone(zone_name)

ZoneUserParams(zone_name, user_params) ==
    IF HasUserEntry(zone_name, user_params)
    THEN user_params.d[zone_name]
    ELSE get_default_params_for_zone(zone_name)

\* the constants that complete a field missing from zone_user_params
FieldDefaults ==
    [E_Pt |-> Tuple2(PyFloat(25000), PyFloat(3000)),
     g |-> Tuple2(PyFloat(200000), PyFloat(30000)),
     endangered_species_WTP |-> Tuple2(PyFloat(13370), PyFloat(2000)),
     R_t_lease |-> <<200000, 150000, 100000, 50000, 25000>>,
     T_lease |-> Fixed(PyInt(5)),
     r_lease |-> Fixed(PyFloat(50)),
     epsilon_t |-> Fixed(PyInt(0))]

ZoneParams(zone_name, biomass_data, emissions_data, water_yield_stats, user_params, carbon_credit_price) ==
    LET zone_user_params == ZoneUserParams(zone_name, user_params)
    IN  [V_t |-> BiomassPair(biomass_data),
         pvc_per_acre |-> CarbonPair(emissions_data, carbon_credit_price),
         water_quality_value |-> WaterPair(zone_name, water_yield_stats),
         E_Pt |-> Get(zone_user_params, "E_Pt", FieldDefaults.E_Pt),
         g |-> Get(zone_user_params, "g", FieldDefaults.g),
         endangered_species_WTP |->
             Get(zone_user_params, "endangered_species_WTP",
                 FieldDefaults.endangered_species_WTP),
         R_t_lease |-> Get(zone_user_params, "R_t_lease", FieldDefaults.R_t_lease),
         T_lease |-> Get(zone_user_params, "T_lease", FieldDefaults.T_lease),
         r_lease |-> Get(zone_user_params, "r_lease", FieldDefaults.r_lease),
         epsilon_t |-> Get(zone_user_params, "epsilon_t", FieldDefaults.epsilon_t)]

\* the exception one zone's iteration raises, "none" if it completes
ZoneExc(zone_name, biomass_stats, emissions_stats, water_yield_stats) ==
    LET biomass_obj == biomass_stats.at[zone_name]
        emissions_obj == Get(emissions_stats, zone_name, DictObj(EmptyDict))
    IN  IF biomass_obj.k = "none" THEN "AttributeError"
        ELSE IF emissions_obj.k = "none" THEN "AttributeError"
        ELSE IF CarbonRaises(emissions_obj.d) THEN "TypeError"
        ELSE IF WaterRaises(zone_name, water_yield_stats) THEN "TypeError"
        ELSE "none"

NoParams == [order |-> <<>>, at |-> [z \in {} |-> FieldDefaults]]

\* the zones in enumeration order up to (excluding) the first that raises
RECURSIVE ResolvedPrefix(_, _, _, _)
ResolvedPrefix(order, biomass_stats, emissions_stats, water_yield_stats) ==
    IF order = <<>> THEN <<>>
    ELSE IF ZoneExc(Head(order), biomass_stats, emissions_stats,
                    water_yield_stats) # "none"
    THEN <<>>
    ELSE <<Head(order)>> \o ResolvedPrefix(Tail(order), biomass_stats,
                                           emissions_stats, water_yield_stats)

(***************************************************************************)
(* create_economic_parameters: [exc, val]; val is the ordered dict         *)
(* zone -> zone_params when exc = "none" and empty otherwise (an exception *)
(* leaves the method without a return value).                              *)
(***************************************************************************)
create_economic_parameters(biomass_stats, emissions_stats, water_yield_stats, user_params, carbon_credit_price) ==
    LET done == ResolvedPrefix(biomass_stats.order, biomass_stats,
                               emissions_stats, water_yield_stats)
    IN  IF Len(done) < Len(biomass_stats.order)
        THEN [exc |-> ZoneExc(biomass_stats.order[Len(done) + 1], biomass_stats,
                              emissions_stats, water_yield_stats),
              val |-> NoParams]
        ELSE [exc |-> "none",
              val |-> [order |-> biomass_stats.order,
                       at |-> [z \in DOMAIN biomass_stats.at |->
                                ZoneParams(z, biomass_stats.at[z].d,
                                    Get(emissions_stats, z, DictObj(EmptyDict)).d,
                                    water_yield_stats, user_params,
                                    carbon_credit_price)]]]

(***************************************************************************)
(* The process-wide generator of numpy.random.  Its state is a number;     *)
(* seeding sets it from the seed, and every normal draw reads one standard *)
(* deviate (a whole number of standard deviations, -2..2) off the state    *)
(* and advances it.                                                        *)
(***************************************************************************)
SeedState(random_seed) == random_seed % 16

NextState(state) == (5 * state + 3) % 16

StdNormal(state) == (state % 5) - 2

\* a draw of standard deviation 2 whatever std is
NormalOfFixedStd(mean, std, state) == PyFloat(mean.v + 2000 * StdNormal(state))

\* np.random.normal(mean, std) on the generator state
Normal(mean, std, state) == PyFloat(mean.v + std.v * StdNormal(state))

(***************************************************************************)
(* calculate_tev.  One evaluation threads a record [rng, exc, v] through   *)
(* the statements of the loop body: rng is the generator state, exc the    *)
(* exception raised so far ("none" if none) and v the values drawn.        *)
(***************************************************************************)
StochasticFields ==
    <<"E_Pt", "epsilon_t", "V_t", "g", "pvc_per_acre", "water_quality_value",
      "endangered_species_WTP", "r_lease">>

\* get_value(param) that leaves the generator where it was
GetValueWithoutAdvance(st, f, param) ==
    IF st.exc # "none" THEN st
    ELSE IF param.k = "tuple"
    THEN IF IsNumber(param.m) /\ IsNumber(param.s)
         THEN [st EXCEPT !.v[f] = Normal(param.m, param.s, st.rng)]
         ELSE [st EXCEPT !.exc = "TypeError"]
    ELSE [st EXCEPT !.v[f] = param.m]

\* get_value(param), stored under field f
GetValue(st, f, param) ==
    IF st.exc # "none" THEN st
    ELSE IF param.k = "tuple"
    THEN IF IsNumber(param.m) /\ IsNumber(param.s)
         THEN [st EXCEPT !.rng = NextState(st.rng),
                         !.v[f] = Normal(param.m, param.s, st.rng)]
         ELSE [st EXCEPT !.exc = "TypeError"]
    ELSE [st EXCEPT !.v[f] = param.m]

\* an arithmetic statement over the values of fields fs
Arith(st, fs) ==
    IF st.exc # "none" THEN st
    ELSE IF \A f \in fs : IsNumber(st.v[f]) THEN st
    ELSE [st EXCEPT !.exc = "TypeError"]

\* range(1, T_lease + 1): T_lease must be an int
LeaseYears(T_lease) == T_lease.m.v \div 1000

\* the lease loop: the exception it raises, "none" if it completes
LeaseExc(params, r_lease) ==
    IF params.T_lease.k = "tuple" \/ params.T_lease.m.k # "int" THEN "TypeError"
    ELSE IF LeaseYears(params.T_lease) < 1 THEN "none"
    ELSE IF ~IsNumber(r_lease) THEN "TypeError"
    ELSE IF 1000 + r_lease.v = 0 THEN "ZeroDivisionError"
    ELSE "none"

LeaseLoop(st, params) ==
    IF st.exc # "none" THEN st
    ELSE [st EXCEPT !.exc = LeaseExc(params, st.v["r_lease"])]

\* sum over t_val = 1..T of current_R / (1 + r_lease) ** t_val, where
\* discount is (1 + r_lease) ** (t_val - 1)
RECURSIVE LeaseSum(_, _, _, _, _)
LeaseSum(R_t_lease, T, r, t_val, discount) ==
    IF t_val > T THEN 0
    ELSE LET current_R == IF t_val - 1 < Len(R_t_lease) THEN R_t_lease[t_val] ELSE 0
             power == FMul(discount, 1000 + r)
         IN  (current_R * 1000) \div power
               + LeaseSum(R_t_lease, T, r, t_val + 1, power)

\* the lease loop run over the whole schedule instead of T_lease years
LeaseValueOfWholeSchedule(params, r_lease) ==
    LeaseSum(params.R_t_lease, Len(params.R_t_lease), r_lease.v, 1, 1000)

LeaseValue(params, r_lease) ==
    LeaseSum(params.R_t_lease, LeaseYears(params.T_lease), r_lease.v, 1, 1000)

\* the body of the simulation loop up to the assignment of the total
Evaluate(params, rng) ==
    LET s0 == [rng |-> rng, exc |-> "none",
               v |-> [f \in Range(StochasticFields) |-> PyNone]]
        s1 == GetValue(s0, "E_Pt", params.E_Pt)
        s2 == GetValue(s1, "epsilon_t", params.epsilon_t)
        s3 == Arith(s2, {"E_Pt", "epsilon_t"})
        s4 == GetValue(s3, "V_t", params.V_t)
        s5 == GetValue(s4, "g", params.g)
        s6 == Arith(s5, {"V_t", "g"})
        s7 == GetValue(s6, "pvc_per_acre", params.pvc_per_acre)
        s8 == GetValue(s7, "water_quality_value", params.water_quality_value)
        s9 == GetValue(s8, "endangered_species_WTP", params.endangered_species_WTP)
        s10 == Arith(s9, {"water_quality_value", "endangered_species_WTP"})
        s11 == GetValue(s10, "r_lease", params.r_lease)
        s12 == LeaseLoop(s11, params)
    IN  Arith(s12, {"pvc_per_acre"})

\* the four components of one evaluation and their total, per acre
TimberValue(v) == FMul(v["E_Pt"].v + v["epsilon_t"].v, v["V_t"].v) - v["g"].v

CarbonValue(v) == v["pvc_per_acre"].v

EcosystemValue(v) == v["water_quality_value"].v + v["endangered_species_WTP"].v

\* the total without the ecosystem-services component
TevPerAcreWithoutEcosystem(params, v) ==
    TimberValue(v) + CarbonValue(v) + LeaseValue(params, v["r_lease"])

TevPerAcre(params, v) ==
    TimberValue(v) + CarbonValue(v) + EcosystemValue(v)
      + LeaseValue(params, v["r_lease"])

\* the simulation loop: evaluations i..num_simulations from generator state
\* rng; it stops at the first evaluation that raises
RECURSIVE SimLoop(_, _, _, _)

\* tev_values[i] = total, followed by the rest of the loop
SimStore(total, rest) ==
    [exc |-> rest.exc, vals |-> <<total>> \o rest.vals, rng |-> rest.rng]

\* iteration i, whose evaluation gave e
SimStep(params, i, num_simulations, e) ==
    IF e.exc # "none" THEN [exc |-> e.exc, vals |-> <<>>, rng |-> e.rng]
    ELSE SimStore(TevPerAcre(params, e.v),
                  SimLoop(params, i + 1, num_simulations, e.rng))

SimLoop(params, i, num_simulations, rng) ==
    IF i > num_simulations THEN [exc |-> "none", vals |-> <<>>, rng |-> rng]
    ELSE SimStep(params, i, num_simulations, Evaluate(params, rng))

\* total_acres is not None
ScalesByAcresUnlessNone(total_acres) == IsNumber(total_acres)

\* total_acres is not None and total_acres > 0
ScalesByAcres(total_acres) == IsNumber(total_acres) /\ total_acres.v > 0

\* calculate_tev: [exc, vals, rng]; vals is the returned array when exc is
\* "none"
\* the scaling that follows the loop
ScaleByAcres(loop, total_acres) ==
    IF loop.exc # "none" THEN [loop EXCEPT !.vals = <<>>]
    ELSE IF ScalesByAcres(total_acres)
    THEN [loop EXCEPT !.vals = [i \in 1..Len(loop.vals) |->
                                  FMul(loop.vals[i], total_acres.v)]]
    ELSE loop

\* calculate_tev with the loop one evaluation short
calculate_tev_one_short(case_params, total_acres, num_simulations, rng) ==
    ScaleByAcres(SimLoop(case_params, 2, num_simulations, rng), total_acres)

calculate_tev(case_params, total_acres, num_simulations, rng) ==
    ScaleByAcres(SimLoop(case_params, 1, num_simulations, rng), total_acres)

\* the evaluations the loop performs, in order: for each one the generator
\* state at its start, the values it drew and the generator state at its end
RECURSIVE Evaluations(_, _, _, _)

EvaluationAt(params, i, num_simulations, rng, e) ==
    <<[start |-> rng, exc |-> e.exc, v |-> e.v, rng |-> e.rng]>>
      \o (IF e.exc # "none" THEN <<>>
          ELSE Evaluations(params, i + 1, num_simulations, e.rng))

Evaluations(params, i, num_simulations, rng) ==
    IF i > num_simulations THEN <<>>
    ELSE EvaluationAt(params, i, num_simulations, rng, Evaluate(params, rng))

(***************************************************************************)
(* The summary statistics of run_monte_carlo (numpy mean, std, median,     *)
(* percentile, min, max) over a non-empty sample sequence.                 *)
(***************************************************************************)
RECURSIVE SumSeq(_)
SumSeq(xs) == IF xs = <<>> THEN 0 ELSE Head(xs) + SumSeq(Tail(xs))

RECURSIVE Insert(_, _)
Insert(x, sorted) ==
    IF sorted = <<>> THEN <<x>>
    ELSE IF x <= Head(sorted) THEN <<x>> \o sorted
    ELSE <<Head(sorted)>> \o Insert(x, Tail(sorted))

RECURSIVE Sorted(_)
Sorted(xs) == IF xs = <<>> THEN <<>> ELSE Insert(Head(xs), Sorted(Tail(xs)))

Mean(xs) == SumSeq(xs) \div Len(xs)

\* r * r <= x for r and x in thousandths, that is r^2 <= 1000 * x
SquareAtMost(r, x) ==
    \/ FMul(r, r) < x
    \/ FMul(r, r) = x /\ ((r % 1000) * (r % 1000)) % 1000 = 0

\* the largest r in lo..hi with r * r <= x
RECURSIVE SqrtBetween(_, _, _)
SqrtBetween(x, lo, hi) ==
    IF lo >= hi THEN lo
    ELSE LET mid == (lo + hi + 1) \div 2
         IN  IF SquareAtMost(mid, x) THEN SqrtBetween(x, mid, hi)
             ELSE SqrtBetween(x, lo, mid - 1)

FSqrt(x) == SqrtBetween(x, 0, 1400000)

\* the population standard deviation
Std(xs) ==
    LET mean == Mean(xs)
    IN  FSqrt(SumSeq([i \in 1..Len(xs) |-> FMul(xs[i] - mean, xs[i] - mean)])
                \div Len(xs))

\* np.percentile(xs, q): linear interpolation between the order statistics
Percentile(xs, q) ==
    LET sorted == Sorted(xs)
        position == (Len(xs) - 1) * q * 10
        below == position \div 1000
        fraction == position % 1000
    IN  IF below + 2 > Len(xs) THEN sorted[below + 1]
        ELSE sorted[below + 1]
               + FMul(sorted[below + 2] - sorted[below + 1], fraction)

\* the row over the samples trimmed of the largest, when there are several
SummaryRowTrimmed(zone_name, acres, samples) ==
    [Case |-> zone_name,
     Acres |-> acres,
     Mean_TEV |-> Mean(SubSeq(Sorted(samples), 1, Len(samples) - 1)
                         \o SubSeq(samples, 1, 2 - Len(samples))),
     Std_TEV |-> Std(samples),
     Median_TEV |-> Percentile(samples, 50),
     Q25_TEV |-> Percentile(samples, 25),
     Q75_TEV |-> Percentile(samples, 75),
     Min_TEV |-> Sorted(samples)[1],
     Max_TEV |-> Sorted(samples)[IF Len(samples) > 1 THEN Len(samples) - 1
                                 ELSE 1]]

SummaryRow(zone_name, acres, samples) ==
    [Case |-> zone_name,
     Acres |-> acres,
     Mean_TEV |-> Mean(samples),
     Std_TEV |-> Std(samples),
     Median_TEV |-> Percentile(samples, 50),
     Q25_TEV |-> Percentile(samples, 25),
     Q75_TEV |-> Percentile(samples, 75),
     Min_TEV |-> Sorted(samples)[1],
     Max_TEV |-> Sorted(samples)[Len(samples)]]

(***************************************************************************)
(* run_monte_carlo.  The zone loop threads a record [exc, rng, rows, sims, *)
(* warned]: the rows appended to all_results, the entries appended to      *)
(* self.simulation_results and the zones of the printed warnings.          *)
(***************************************************************************)
\* acres == 0
IsZeroAcres(acres) == IsNumber(acres) /\ acres.v = 0

\* the statements after the call, with every row computed over the sample
\* sequence of the first zone processed
ZoneAppendOverFirstSample(acc, zone_name, acres, tev) ==
    IF tev.exc # "none" THEN [acc EXCEPT !.exc = tev.exc, !.rng = tev.rng]
    ELSE [acc EXCEPT !.rng = tev.rng,
                     !.rows = Append(acc.rows,
                                 SummaryRow(zone_name, acres,
                                     IF acc.sims = <<>> THEN tev.vals
                                     ELSE acc.sims[1].TEV)),
                     !.sims = Append(acc.sims,
                                 [Case |-> zone_name, TEV |-> tev.vals])]

\* the statements after tev_values = self.calculate_tev(...)
ZoneAppend(acc, zone_name, acres, tev) ==
    IF tev.exc # "none" THEN [acc EXCEPT !.exc = tev.exc, !.rng = tev.rng]
    ELSE [acc EXCEPT !.rng = tev.rng,
                     !.rows = Append(acc.rows,
                                 SummaryRow(zone_name, acres, tev.vals)),
                     !.sims = Append(acc.sims,
                                 [Case |-> zone_name, TEV |-> tev.vals])]

\* the loop body storing an empty sample sequence for a skipped zone
ZoneBodyListsSkipped(acc, zone_name, zone_params, acres, num_simulations) ==
    IF IsZeroAcres(acres)
    THEN [acc EXCEPT !.warned = Append(acc.warned, zone_name),
                     !.sims = Append(acc.sims,
                                 [Case |-> zone_name, TEV |-> <<>>])]
    ELSE ZoneAppend(acc, zone_name, acres,
                    calculate_tev(zone_params, acres, num_simulations, acc.rng))

\* the loop body making one draw for a skipped zone
ZoneBodyDrawsForSkipped(acc, zone_name, zone_params, acres, num_simulations) ==
    IF IsZeroAcres(acres)
    THEN [acc EXCEPT !.warned = Append(acc.warned, zone_name),
                     !.rng = NextState(acc.rng)]
    ELSE ZoneAppend(acc, zone_name, acres,
                    calculate_tev(zone_params, acres, num_simulations, acc.rng))

\* the loop body once acres is bound
ZoneBody(acc, zone_name, zone_params, acres, num_simulations) ==
    IF IsZeroAcres(acres)
    THEN [acc EXCEPT !.warned = Append(acc.warned, zone_name)]
    ELSE ZoneAppend(acc, zone_name, acres,
                    calculate_tev(zone_params, acres, num_simulations, acc.rng))

ZoneStep(acc, zone_name, zone_params, case_acres, num_simulations) ==
    ZoneBody(acc, zone_name, zone_params,
             Get(case_acres, zone_name, PyInt(0)), num_simulations)

RECURSIVE ZoneLoop(_, _, _, _, _)
ZoneLoop(acc, order, economic_params, case_acres, num_simulations) ==
    IF order = <<>> \/ acc.exc # "none" THEN acc
    ELSE ZoneLoop(ZoneStep(acc, Head(order), economic_params.at[Head(order)],
                           case_acres, num_simulations),
                  Tail(order), economic_params, case_acres, num_simulations)

NoTable == [k |-> "none", rows |-> <<>>]

NoList == [k |-> "none", items |-> <<>>]

\* the effect of run_monte_carlo(args) on a calculator whose fields are
\* results and simulation_results, with the generator in state rng:
\* the exception raised, the returned table, the warnings printed and the
\* new values of the generator state and of the two fields
\* the end of run_monte_carlo, the zone loop having given loop
StoreResults(loop, results) ==
    IF loop.exc # "none"
    THEN [exc |-> loop.exc, val |-> NoTable, warned |-> loop.warned,
          rng |-> loop.rng, results |-> results,
          simulation_results |-> [k |-> "list", items |-> loop.sims]]
    ELSE [exc |-> "none", val |-> [k |-> "table", rows |-> loop.rows],
          warned |-> loop.warned, rng |-> loop.rng,
          results |-> [k |-> "table", rows |-> loop.rows],
          simulation_results |-> [k |-> "list", items |-> loop.sims]]

\* run_monte_carlo after the resolver call, which gave resolved
Simulate(resolved, args, rng, results, simulation_results) ==
    IF resolved.exc # "none"
    THEN [exc |-> resolved.exc, val |-> NoTable, warned |-> <<>>,
          rng |-> rng, results |-> results,
          simulation_results |-> simulation_results]
    ELSE StoreResults(ZoneLoop([exc |-> "none", rng |-> rng, rows |-> <<>>,
                                sims |-> <<>>, warned |-> <<>>],
                               resolved.val.order, resolved.val,
                               args.case_acres, args.num_simulations),
                      results)

run_monte_carlo(args, rng, results, simulation_results) ==
    Simulate(create_economic_parameters(args.biomass_stats,
                 args.emissions_stats, args.water_yield_stats,
                 args.user_params, args.carbon_credit_price),
             args, rng, results, simulation_results)

(***************************************************************************)
(* Inputs of the model: zone names, measurement tables, water-yield        *)
(* results, user overrides and carbon prices.                              *)
(***************************************************************************)
ZoneNames == {CS1 \o LLP, CS2, CS3 \o LLP, CS2 \o CS1, <<"X">>, <<"X">> \o LLP}

\* the enumeration orders of a biomass input: distinct zones, 1..MaxZones
RECURSIVE Orders(_)
Orders(n) ==
    IF n = 0 THEN {<<>>}
    ELSE LET shorter == Orders(n - 1)
         IN  shorter \cup
             {Append(o, z) : <<o, z>> \in
                 {<<o, z>> \in shorter \X ZoneNames :
                     Len(o) = n - 1 /\ \A i \in 1..Len(o) : o[i] # z}}

ZoneOrders == Orders(MaxZones) \ {<<>>}

\* a measurement that differs from zone to zone
BioMean(z) == PyFloat(8000 + 1000 * Len(z))
BioStd(z) == PyFloat(500 * Len(z))
EmiMean(z) == PyFloat(1000 + 500 * Len(z))
EmiStd(z) == PyFloat(100 * Len(z))

BioTables ==
    {[z \in ZoneNames |-> DictObj([AGB_per_acre_tons |-> BioMean(z),
                                   AGB_StdDev_per_acre_tons |-> BioStd(z)])],
     [z \in ZoneNames |-> IF Contains(z, LLP)
                          THEN DictObj([AGB_per_acre_tons |-> BioMean(z),
                                        AGB_StdDev_per_acre_tons |-> PyInt(0)])
                          ELSE DictObj([AGB_per_acre_tons |-> BioMean(z)])],
     \* a per-acre value that is present but None (a zone of zero area)
     [z \in ZoneNames |-> IF Contains(z, CS2)
                          THEN DictObj([AGB_per_acre_tons |-> PyNone,
                                        AGB_StdDev_per_acre_tons |-> BioStd(z)])
                          ELSE DictObj([AGB_per_acre_tons |-> BioMean(z),
                                        AGB_StdDev_per_acre_tons |-> PyNone])]}

EmiFull ==
    [z \in ZoneNames |-> DictObj([CO2_mean_tons_per_acre |-> EmiMean(z),
                                  CO2_std_tons_per_acre |-> EmiStd(z)])]

EmiTables ==
    {EmiFull,
     [z \in {n \in ZoneNames : ~Contains(n, LLP)} |-> EmiFull[z]],
     [z \in ZoneNames |-> IF Contains(z, CS1)
                          THEN DictObj([CO2_mean_tons_per_acre |-> EmiMean(z)])
                          ELSE DictObj(EmptyDict)],
     [z \in ZoneNames |-> IF Contains(z, CS2)
                          THEN DictObj([CO2_mean_tons_per_acre |-> PyNone,
                                        CO2_std_tons_per_acre |-> EmiStd(z)])
                          ELSE EmiFull[z]]}

WaterMean(z) == PyFloat(40000 + 10 * Len(z))

WaterFullEntry(z) ==
    DictObj([water_yield_per_acre_usd |-> WaterMean(z),
             water_yield_std_per_acre_usd |-> PyFloat(3000)])

WaterStats ==
    {NoneObj,
     DictObj([z \in {} |-> NoneObj]),
     \* keyed by AOI name (the zone name without '_LLP'), mean and std
     DictObj([z \in {CS1, CS2, CS3, <<"X">>} |-> WaterFullEntry(z)]),
     \* keyed by zone name, mean only
     DictObj([z \in ZoneNames |->
                DictObj([water_yield_per_acre_usd |-> WaterMean(z)])]),
     \* entries without the mean field, an empty entry, a failed AOI
     DictObj([z \in {CS1, CS2, CS2 \o CS1, <<"X">>} |->
                IF z = CS1
                THEN DictObj([water_yield_std_per_acre_usd |-> PyFloat(3000)])
                ELSE IF z = CS2 THEN DictObj([note |-> PyStr])
                ELSE IF z = <<"X">> THEN NoneObj
                ELSE DictObj(EmptyDict)]),
     \* the fallback pair supplied explicitly
     DictObj([z \in {CS1, CS2, CS2 \o CS1, <<"X">>} |->
                DictObj([water_yield_per_acre_usd |-> PyFloat(100000),
                         water_yield_std_per_acre_usd |-> PyFloat(2000)])]),
     \* a mean of zero, a mean that is not a number
     DictObj([z \in {CS1, CS2} |->
                IF z = CS1 THEN DictObj([water_yield_per_acre_usd |-> PyInt(0)])
                ELSE DictObj([water_yield_per_acre_usd |-> PyNone,
                              water_yield_std_per_acre_usd |-> PyFloat(3000)])])}

FullOverride ==
    [E_Pt |-> Tuple2(PyFloat(7500), PyFloat(1000)),
     g |-> Tuple2(PyInt(375), PyInt(50)),
     endangered_species_WTP |-> Tuple2(PyFloat(1337), PyInt(1)),
     R_t_lease |-> <<50000, 20000, 0, 0, 0>>,
     T_lease |-> Fixed(PyInt(5)),
     r_lease |-> Fixed(PyFloat(60)),
     epsilon_t |-> Fixed(PyInt(0))]

PartialOverride ==
    [E_Pt |-> Fixed(PyFloat(30000)),
     R_t_lease |-> <<100000, 100000>>,
     T_lease |-> Fixed(PyInt(3)),
     epsilon_t |-> Tuple2(PyInt(0), PyFloat(500))]

EmptyOverride == [f \in {} |-> Fixed(PyInt(0))]

UserParams ==
    {NoneObj,
     DictObj([z \in {} |-> EmptyOverride]),
     DictObj([z \in ZoneNames |-> FullOverride]),
     DictObj([z \in {CS1 \o LLP, CS2, <<"X">>} |->
                IF z = CS2 THEN EmptyOverride ELSE PartialOverride])}

CarbonPrices == {PyFloat(10000), PyFloat(2500)}

\* the arguments of one create_economic_parameters call
ResolverInputs ==
    {[biomass_stats |-> [order |-> o, at |-> [z \in Range(o) |-> b[z]]],
      emissions_stats |-> e,
      water_yield_stats |-> w,
      user_params |-> u,
      carbon_credit_price |-> p] :
        o \in ZoneOrders, b \in BioTables, e \in EmiTables, w \in WaterStats,
        u \in UserParams, p \in CarbonPrices}

(***************************************************************************)
(* The calls of the driver model: two zones, a severe-class zone and a     *)
(* generic one, with stochastic measurements.                              *)
(***************************************************************************)
Seeds == {42, 7}

ZoneA == CS1 \o LLP

ZoneB == <<"X">>

DriverOrders == {o \in ZoneOrders : Range(o) \subseteq {ZoneA, ZoneB}}

BioFull ==
    [z \in ZoneNames |-> DictObj([AGB_per_acre_tons |-> BioMean(z),
                                  AGB_StdDev_per_acre_tons |-> BioStd(z)])]

OrderedDict(order, table) == [order |-> order, at |-> [z \in Range(order) |-> table[z]]]

BaseArgs(order, num_simulations) ==
    [biomass_stats |-> OrderedDict(order, BioFull),
     emissions_stats |-> EmiFull,
     case_acres |-> [z \in {ZoneA, ZoneB} |->
                       IF z = ZoneA THEN PyFloat(2000) ELSE PyFloat(3000)],
     water_yield_stats |-> NoneObj,
     user_params |-> NoneObj,
     carbon_credit_price |-> PyFloat(10000),
     num_simulations |-> num_simulations]

\* acreage tables: zone B with zero, absent, negative and None acreage
AcresTables ==
    {[z \in {ZoneA, ZoneB} |-> IF z = ZoneA THEN PyFloat(2000) ELSE PyInt(0)],
     [z \in {ZoneA} |-> PyFloat(2000)],
     [z \in {ZoneA, ZoneB} |-> IF z = ZoneA THEN PyFloat(2000) ELSE PyFloat(-1500)],
     [z \in {ZoneA, ZoneB} |-> IF z = ZoneA THEN PyFloat(2000) ELSE PyNone]}

\* overrides that make zone B's simulation fail: a lease horizon that is
\* not an int, a discount rate of -1
FaultyUserParams ==
    {DictObj([z \in {ZoneB} |-> [T_lease |-> Fixed(PyFloat(2500))]]),
     DictObj([z \in {ZoneB} |-> [r_lease |-> Tuple2(PyFloat(-1000), PyInt(0))]])}

\* measurements that are not numbers: zone B's emissions mean is None,
\* zone B's biomass mean is a string
EmiNoneB ==
    [z \in ZoneNames |-> IF z = ZoneB
                         THEN DictObj([CO2_mean_tons_per_acre |-> PyNone,
                                       CO2_std_tons_per_acre |-> EmiStd(z)])
                         ELSE EmiFull[z]]

BioStrB ==
    [z \in ZoneNames |-> IF z = ZoneB
                         THEN DictObj([AGB_per_acre_tons |-> PyStr,
                                       AGB_StdDev_per_acre_tons |-> BioStd(z)])
                         ELSE BioFull[z]]

\* the fallback pair supplied explicitly for every zone
WaterExplicitFallback ==
    DictObj([z \in {CS1, ZoneB} |->
               DictObj([water_yield_per_acre_usd |-> PyFloat(100000),
                        water_yield_std_per_acre_usd |-> PyFloat(2000)])])

\* the calls of the model: every order and number of simulations with the
\* base arguments; the acreage tables and the failing inputs on two zones
FaultCallsOf(b) ==
    {[b EXCEPT !.case_acres = a] : a \in AcresTables}
      \cup {[b EXCEPT !.user_params = u] : u \in FaultyUserParams}
      \cup {[b EXCEPT !.emissions_stats = EmiNoneB],
            [b EXCEPT !.biomass_stats = OrderedDict(b.biomass_stats.order, BioStrB)]}

Calls ==
    {BaseArgs(o, n) : o \in DriverOrders, n \in 1..MaxSims}
      \cup UNION {FaultCallsOf(BaseArgs(o, 1)) : o \in {<<ZoneA, ZoneB>>, <<ZoneB, ZoneA>>}}

\* the calls of the model of repeated runs: water yield omitted or supplied
\* as the fallback pair; zone B without acreage
PairCalls ==
    UNION {{BaseArgs(o, n),
            [BaseArgs(o, n) EXCEPT !.water_yield_stats = WaterExplicitFallback]} :
             o \in {<<ZoneA>>, <<ZoneB, ZoneA>>}, n \in {MaxSims}}
      \cup {[BaseArgs(<<ZoneB, ZoneA>>, MaxSims) EXCEPT
               !.case_acres = [z \in {ZoneA} |-> PyFloat(2000)]]}

(***************************************************************************)
(* The calls of the calculate_tev model: parameter sets as the resolver    *)
(* builds them and variants of them, acreages, generator states.           *)
(***************************************************************************)
SevereParams ==
    ZoneParams(ZoneA, BioFull[ZoneA].d, EmiFull[ZoneA].d, NoneObj, NoneObj,
               PyFloat(10000))

\* a lease schedule shorter than the horizon, a stochastic price shock
ShortScheduleParams ==
    ZoneParams(ZoneB, BioFull[ZoneB].d, EmiFull[ZoneB].d, NoneObj,
               DictObj([z \in {ZoneB} |-> PartialOverride]), PyFloat(2500))

\* a lease schedule longer than the horizon, a stochastic discount rate
LongScheduleParams ==
    [SevereParams EXCEPT !.T_lease = Fixed(PyInt(2)),
                         !.R_t_lease = <<50000, 20000, 70000>>,
                         !.r_lease = Tuple2(PyFloat(60), PyFloat(10))]

\* every pair with a std of zero
ZeroVarianceParams ==
    [V_t |-> Tuple2(PyFloat(9000), PyInt(0)),
     pvc_per_acre |-> Tuple2(PyFloat(15000), PyFloat(0)),
     water_quality_value |-> Tuple2(PyFloat(100000), PyFloat(0)),
     E_Pt |-> Tuple2(PyFloat(7500), PyInt(0)),
     g |-> Tuple2(PyInt(375), PyInt(0)),
     endangered_species_WTP |-> Fixed(PyFloat(1337)),
     R_t_lease |-> <<50000, 20000>>,
     T_lease |-> Fixed(PyInt(3)),
     r_lease |-> Tuple2(PyFloat(60), PyInt(0)),
     epsilon_t |-> Tuple2(PyInt(0), PyFloat(0))]

\* every field a fixed scalar, no lease years
ScalarParams ==
    [V_t |-> Fixed(PyFloat(9000)),
     pvc_per_acre |-> Fixed(PyFloat(15000)),
     water_quality_value |-> Fixed(PyFloat(100000)),
     E_Pt |-> Fixed(PyFloat(7500)),
     g |-> Fixed(PyInt(375)),
     endangered_species_WTP |-> Fixed(PyFloat(1337)),
     R_t_lease |-> <<50000, 20000>>,
     T_lease |-> Fixed(PyInt(0)),
     r_lease |-> Fixed(PyFloat(60)),
     epsilon_t |-> Fixed(PyInt(0))]

\* parameter sets on which an evaluation raises
FaultyParams ==
    {[SevereParams EXCEPT !.T_lease = Fixed(PyFloat(2500))],
     [SevereParams EXCEPT !.r_lease = Tuple2(PyFloat(-1000), PyInt(0))],
     [SevereParams EXCEPT !.V_t = Tuple2(PyNone, PyFloat(500))]}

TevParams ==
    {SevereParams, ShortScheduleParams, LongScheduleParams, ZeroVarianceParams,
     ScalarParams} \cup FaultyParams

TevAcres == {PyInt(0), PyNone, PyFloat(2000), PyFloat(500), PyFloat(-1500)}

GeneratorStates == {SeedState(random_seed) : random_seed \in 0..15}

TevInputs ==
    {[case_params |-> params, total_acres |-> acres, num_simulations |-> n,
      rng |-> state] :
        params \in TevParams, acres \in TevAcres, n \in 0..MaxSims,
        state \in GeneratorStates}

(***************************************************************************)
(* BiomassChangeCalculator.  A raster is a function from the pixels of the *)
(* study area to a value in thousandths, a geometry is a set of pixels,    *)
(* and the ESA-CCI collections hold one image per year.  A stored image is *)
(* [k |-> "image", year |-> y]; None is NoImage.                           *)
(***************************************************************************)
NumPixels == 3

Pixels == 1..NumPixels

\* the years for which the collections hold an image
Years == {2010, 2017, 2018}

NoImage == [k |-> "none", year |-> 0]

Image(year) == [k |-> "image", year |-> year]

\* band AGB of ESA_CCI_AGB, tons per hectare
AGB(year) == [p \in Pixels |-> 1000 * (120 + 10 * p - (year - 2010) * p)]

\* band AGB_DIFF_QF of ESA_CCI_AGB_DIFF; 3 is 'improbable change'
AGB_DIFF_QF(year) ==
    [p \in Pixels |-> IF year = 2010 THEN (IF p = 1 THEN 3 ELSE 1)
                      ELSE IF year = 2017 THEN (IF p = 3 THEN 3 ELSE 2)
                      ELSE 1]

\* band AGB_DIFF_SD of ESA_CCI_AGB_DIFF
AGB_DIFF_SD(year) == [p \in Pixels |-> 1000 * (5 + p + (year % 3))]

\* image.divide(2.47105): tons per hectare to tons per acre (the divisor
\* in thousandths)
Divide247105(raster) == [p \in Pixels |-> (raster[p] * 1000) \div 2471]

\* ee.Image.pixelArea().divide(4046.86) at the given resolution
PixelAreaAcres(resolution) == (resolution * resolution * 100000) \div 404686

\* quality_flag.neq(3)
MaskOf(quality_mask) ==
    [p \in Pixels |-> AGB_DIFF_QF(quality_mask.year)[p] # 3]

\* the pixels of the geometry an image masked by quality_mask has data at
Unmasked(geometry, quality_mask) ==
    IF quality_mask.k = "none" THEN geometry
    ELSE {p \in geometry : MaskOf(quality_mask)[p]}

\* reduceRegion(geometry, ee.Reducer.mean()) of a raster over the pixels
\* selected
MeanOver(raster, selected) ==
    SumSeq([p \in Pixels |-> IF p \in selected THEN raster[p] ELSE 0])
      \div Cardinality(selected)

\* image.multiply(carbon_fraction).multiply(44).divide(12)
ToCO2(raster, carbon_fraction) ==
    [p \in Pixels |-> (FMul(raster[p], carbon_fraction) * 44) \div 12]

Absent == [k |-> "absent", v |-> 0]

\* co2_std and credit_std_per_acre: None when no standard deviation image
\* is stored
CO2Std(geometry, quality_mask, change_sd, carbon_fraction) ==
    IF change_sd.k = "none" THEN Absent
    ELSE PyFloat(FSqrt(MeanOver(
             [p \in Pixels |->
                FMul(ToCO2(AGB_DIFF_SD(change_sd.year), carbon_fraction)[p],
                     ToCO2(AGB_DIFF_SD(change_sd.year), carbon_fraction)[p])],
             Unmasked(geometry, quality_mask))))

Times(x, factor) == IF x.k = "absent" THEN Absent ELSE PyFloat(FMul(x.v, factor))

\* the dictionary built from the mean, the standard deviation and the area
EmissionsResults(co2_mean, co2_std, area_acres, credit_price_per_ton) ==
    [area_acres |-> area_acres,
     CO2_mean_tons_per_acre |-> co2_mean,
     CO2_total_tons |-> FMul(co2_mean, area_acres),
     credit_mean_usd_per_acre |-> FMul(co2_mean, credit_price_per_ton),
     credit_total_usd |-> FMul(FMul(co2_mean, credit_price_per_ton), area_acres),
     CO2_std_tons_per_acre |-> co2_std,
     credit_std_usd_per_acre |-> Times(co2_std, credit_price_per_ton)]

\* the CO2 difference raster: (post - pre) biomass per pixel as CO2
CO2Diff(agb_pre, agb_post, resolution, carbon_fraction) ==
    ToCO2([p \in Pixels |-> FMul(agb_post[p], PixelAreaAcres(resolution))
                              - FMul(agb_pre[p], PixelAreaAcres(resolution))],
          carbon_fraction)

\* self._calculate_emissions_stats(geometry, resolution) on a calculator
\* with the given fields
calculate_emissions_stats(geometry, resolution, agb_pre, agb_post, quality_mask, change_sd, carbon_fraction, credit_price_per_ton) ==
    EmissionsResults(
        MeanOver(CO2Diff(agb_pre, agb_post, resolution, carbon_fraction),
                 Unmasked(geometry, quality_mask)),
        CO2Std(geometry, quality_mask, change_sd, carbon_fraction),
        Cardinality(geometry) * PixelAreaAcres(resolution),
        credit_price_per_ton)

\* self.quality_mask and self.change_sd after the statement
\* 'if apply_quality_filter: self._load_quality_data(start_year, ...)':
\* a call that does not filter leaves the stored image in place
load_quality_data(start_year, apply_quality_filter, stored) ==
    IF apply_quality_filter THEN Image(start_year) ELSE stored

\* the geometry the statistics are computed over
ClipGeometry(focal_species, aoi) ==
    IF focal_species = {} THEN aoi ELSE aoi \cap focal_species

\* calculate_change(...): the results with the metadata, and the images the
\* statistics were computed with
calculate_change(c, focal_species, carbon_fraction, credit_price_per_ton, quality_mask, change_sd) ==
    [results |->
       calculate_emissions_stats(
           ClipGeometry(focal_species, c.aoi), c.resolution,
           Divide247105(AGB(c.pre_year)), Divide247105(AGB(c.post_year)),
           quality_mask, change_sd, carbon_fraction, credit_price_per_ton),
     pre_period |-> c.pre_year,
     post_period |-> c.post_year,
     carbon_fraction |-> carbon_fraction,
     credit_price_per_ton |-> credit_price_per_ton,
     quality_filter_applied |-> c.apply_quality_filter,
     quality_mask |-> quality_mask,
     change_sd |-> change_sd]

\* the calls of the model: areas of interest that share pixel 2, which no
\* quality flag excludes
AOIs == {{1, 2}, {2, 3}, {1, 2, 3}}

ChangeCalls ==
    {[k |-> "change", pre_year |-> y, post_year |-> 2020, aoi |-> a,
      resolution |-> 100, apply_quality_filter |-> f] :
        y \in Years, a \in AOIs, f \in BOOLEAN}

\* no focal species layer, or one that covers pixels 2 and 3
FocalLayers == {{}, {2, 3}}

CarbonFractions == {510, 470}

CreditPrices == {1000, 15000}

(***************************************************************************)
(* WaterYieldCalculator.  What Earth Engine answers for an area of         *)
(* interest is the record [ee, ET, ppt, std]: ee = "error" when a request  *)
(* fails, ET and ppt the regional means (None, or absent from the answer,  *)
(* when there is no data), std the standard deviation of the per-pixel     *)
(* yield ("absent" when the reduction has no 'ppt' entry).                 *)
(***************************************************************************)
NoData == [k |-> "absent", v |-> 0]

\* value.multiply(M2_PER_ACRE).multiply(KG_TO_KL).multiply(water_price):
\* 4046.86 * 0.001 is applied as 4.047
PerAcreUsd(value, water_price) == FMul(FMul(value, 4047), water_price)

\* the dictionary calculate_water_yield returns
WaterYieldResults(data, water_price, et_scale_factor) ==
    [precipitation_per_acre_usd |-> PyFloat(PerAcreUsd(data.ppt.v, water_price)),
     et_per_acre_usd |->
         PyFloat(PerAcreUsd(FMul(data.ET.v, et_scale_factor), water_price)),
     water_yield_per_acre_usd |->
         PyFloat(PerAcreUsd(data.ppt.v, water_price)
                   - PerAcreUsd(FMul(data.ET.v, et_scale_factor), water_price)),
     water_yield_std_per_acre_usd |->
         IF data.std.k = "absent" THEN PyInt(0) ELSE data.std]

\* calculate_water_yield(aoi, ...): the exception raised or the results
calculate_water_yield(data, water_price, et_scale_factor) ==
    IF data.ee = "error" THEN [exc |-> "EEException", val |-> NoneObj]
    ELSE IF ~IsNumber(data.ET) THEN [exc |-> "ValueError", val |-> NoneObj]
    ELSE IF ~IsNumber(data.ppt) THEN [exc |-> "ValueError", val |-> NoneObj]
    ELSE [exc |-> "none",
          val |-> DictObj(WaterYieldResults(data, water_price, et_scale_factor))]

\* one iteration of the loop in which a failed area of interest gets no
\* key
AoiStepOmitsFailed(results, aoi_name, outcome) ==
    IF outcome.exc = "none"
    THEN [a \in DOMAIN results \cup {aoi_name} |->
            IF a = aoi_name THEN outcome.val ELSE results[a]]
    ELSE results

\* one iteration of the loop over aois.items(): the try block stores the
\* results under the name, the except block stores None
AoiStep(results, aoi_name, outcome) ==
    [a \in DOMAIN results \cup {aoi_name} |->
       IF a # aoi_name THEN results[a]
       ELSE IF outcome.exc = "none" THEN outcome.val ELSE NoneObj]

RECURSIVE AoiLoop(_, _, _, _, _)
AoiLoop(results, order, aois, water_price, et_scale_factor) ==
    IF order = <<>> THEN results
    ELSE AoiLoop(AoiStep(results, Head(order),
                         calculate_water_yield(aois[Head(order)], water_price,
                                               et_scale_factor)),
                 Tail(order), aois, water_price, et_scale_factor)

\* calculate_for_multiple_aois(aois, ...): no statement outside the try
\* block raises
calculate_for_multiple_aois(aois, water_price, et_scale_factor) ==
    [exc |-> "none",
     val |-> DictObj(AoiLoop([a \in {} |-> NoneObj], aois.order, aois.at,
                             water_price, et_scale_factor))]

\* the names of the areas of interest: the zone names without '_LLP'
AoiNames == {Remove(z, LLP) : z \in ZoneNames}

\* what Earth Engine answers: data with and without a standard deviation,
\* no ET, no precipitation, a failed request
AoiData ==
    {[ee |-> "ok", ET |-> PyFloat(8000000), ppt |-> PyFloat(1200000),
      std |-> PyFloat(4000)],
     [ee |-> "ok", ET |-> PyFloat(6000000), ppt |-> PyFloat(1400000),
      std |-> NoData],
     [ee |-> "ok", ET |-> PyNone, ppt |-> PyFloat(1200000), std |-> NoData],
     [ee |-> "ok", ET |-> NoData, ppt |-> PyFloat(1200000), std |-> NoData],
     [ee |-> "ok", ET |-> PyFloat(8000000), ppt |-> PyNone, std |-> NoData],
     [ee |-> "error", ET |-> NoData, ppt |-> NoData, std |-> NoData]}

\* the enumeration orders of the aois dictionary: up to MaxZones distinct
\* names
AoiOrders ==
    {o \in UNION {[1..n -> AoiNames] : n \in 0..MaxZones} :
        \A i, j \in 1..Len(o) : i # j => o[i] # o[j]}

WaterInputs ==
    UNION {{[aois |-> [order |-> o, at |-> at], water_price |-> 18,
             et_scale_factor |-> 100] : at \in [Range(o) -> AoiData]} :
             o \in AoiOrders}

(***************************************************************************)
(* State.                                                                  *)
(*   rng                 state of the process-wide generator               *)
(*   results             self.results: None or the summary table           *)
(*   simulation_results  self.simulation_results: None or the sample list  *)
(*   runs                number of run_monte_carlo calls on the calculator *)
(*   call, ret           the latest run_monte_carlo call (the seed of the  *)
(*                       calculator, the generator state at entry, the     *)
(*                       arguments) and its outcome                        *)
(*   prev                the run_monte_carlo call before the latest        *)
(*   held                the contents, now, of the table that call         *)
(*                       returned and of the list it stored, both still    *)
(*                       held by the caller                                *)
(*   seed                the random_seed of the latest constructor call    *)
(*   r_in, r_out         arguments and outcome of a                        *)
(*                       create_economic_parameters call                   *)
(*   t_in, t_out         arguments (with the generator state at entry) and *)
(*                       outcome of a calculate_tev call                   *)
(*   focal_species, carbon_fraction, credit_price_per_ton, quality_mask,   *)
(*   change_sd           fields of a BiomassChangeCalculator               *)
(*   b_call, b_ret       the latest calculate_change call and its outcome  *)
(*   w_in, w_out         arguments (with the answers of Earth Engine) and  *)
(*                       outcome of a calculate_for_multiple_aois call     *)
(*   op                  the latest export_results or plot call: whether   *)
(*                       it printed the notice, the table it wrote to the  *)
(*                       file, the sample sequences it drew                *)
(*   completed           number of run_monte_carlo calls on the calculator *)
(*                       that returned                                     *)
(***************************************************************************)
VARIABLES rng, seed, results, simulation_results, runs, call, ret, prev, held, r_in, r_out, t_in, t_out

VARIABLES focal_species, carbon_fraction, credit_price_per_ton, quality_mask, change_sd, b_call, b_ret

VARIABLES w_in, w_out, op, completed

tevVars == <<rng, seed, results, simulation_results, runs, call, ret, prev, held, r_in, r_out, t_in, t_out>>

changeVars == <<focal_species, carbon_fraction, credit_price_per_ton, quality_mask, change_sd, b_call, b_ret>>

waterVars == <<w_in, w_out>>

reportVars == <<op, completed>>

vars == <<tevVars, changeVars, waterVars, reportVars>>

Pending == [exc |-> "pending", val |-> NoParams]

NoArgs ==
    [biomass_stats |-> [order |-> <<>>, at |-> [z \in {} |-> NoneObj]],
     emissions_stats |-> [z \in {} |-> NoneObj],
     case_acres |-> [z \in {} |-> PyNone],
     water_yield_stats |-> NoneObj,
     user_params |-> NoneObj,
     carbon_credit_price |-> PyFloat(0),
     num_simulations |-> 0]

NoResolverArgs ==
    [biomass_stats |-> [order |-> <<>>, at |-> [z \in {} |-> NoneObj]],
     emissions_stats |-> [z \in {} |-> NoneObj],
     water_yield_stats |-> NoneObj,
     user_params |-> NoneObj,
     carbon_credit_price |-> PyFloat(0)]

NoCall == [k |-> "none", seed |-> 0, start |-> 0, args |-> NoArgs]

NoRet == [exc |-> "none", val |-> NoTable, warned |-> <<>>, sims |-> NoList]

NoRun == [call |-> NoCall, ret |-> NoRet]

NoHeld == [val |-> NoTable, sims |-> NoList]

NoTevArgs ==
    [case_params |-> FieldDefaults @@ [V_t |-> Fixed(PyInt(0)),
                                       pvc_per_acre |-> Fixed(PyInt(0)),
                                       water_quality_value |-> Fixed(PyInt(0))],
     total_acres |-> PyNone,
     num_simulations |-> 0,
     rng |-> 0]

TevPending == [exc |-> "pending", vals |-> <<>>, rng |-> 0, evals |-> <<>>]

NoChangeCall ==
    [k |-> "none", pre_year |-> 0, post_year |-> 0, aoi |-> {}, resolution |-> 0,
     apply_quality_filter |-> FALSE]

NoChangeRet ==
    [results |-> EmissionsResults(0, Absent, 0, 0), pre_period |-> 0,
     post_period |-> 0, carbon_fraction |-> 0, credit_price_per_ton |-> 0,
     quality_filter_applied |-> FALSE, quality_mask |-> NoImage,
     change_sd |-> NoImage]

NoWaterArgs ==
    [aois |-> [order |-> <<>>, at |-> [a \in {} |-> NoData]], water_price |-> 0,
     et_scale_factor |-> 0]

WaterPending == [exc |-> "pending", val |-> NoneObj]

WaterIdle == w_in = NoWaterArgs /\ w_out = WaterPending

NoOp ==
    [k |-> "none", exc |-> "none", notice |-> FALSE, wrote |-> NoTable,
     drew |-> <<>>, completed |-> 0, last |-> "norun"]

ReportIdle == op = NoOp /\ completed = 0

\* no BiomassChangeCalculator is in use
ChangeIdle ==
    /\ focal_species = {}
    /\ carbon_fraction = 510
    /\ credit_price_per_ton = 1000
    /\ quality_mask = NoImage
    /\ change_sd = NoImage
    /\ b_call = NoChangeCall
    /\ b_ret = NoChangeRet

(***************************************************************************)
(* The resolver as a pure function: the arguments are drawn in the initial *)
(* state and the call computes the outcome.                                *)
(***************************************************************************)
InitResolver ==
    /\ r_in \in ResolverInputs
    /\ r_out = Pending
    /\ seed = 42
    /\ rng = SeedState(42)
    /\ results = NoTable
    /\ simulation_results = NoList
    /\ runs = 0
    /\ call = NoCall
    /\ ret = NoRet
    /\ prev = NoRun
    /\ held = NoHeld
    /\ t_in = NoTevArgs
    /\ t_out = TevPending
    /\ ChangeIdle
    /\ WaterIdle
    /\ ReportIdle

CreateEconomicParameters ==
    /\ r_out.exc = "pending"
    /\ r_out' = create_economic_parameters(r_in.biomass_stats,
                    r_in.emissions_stats, r_in.water_yield_stats,
                    r_in.user_params, r_in.carbon_credit_price)
    /\ UNCHANGED <<r_in, rng, seed, results, simulation_results, runs, call, ret, prev,
                   held, t_in, t_out, changeVars, waterVars, reportVars>>

NextResolver == CreateEconomicParameters

SpecResolver == InitResolver /\ [][NextResolver]_vars

(***************************************************************************)
(* The calculator.  Init is the state after TEVCalculator(random_seed).    *)
(***************************************************************************)
Init ==
    /\ seed \in Seeds
    /\ rng = SeedState(seed)
    /\ results = NoTable
    /\ simulation_results = NoList
    /\ runs = 0
    /\ call = NoCall
    /\ ret = NoRet
    /\ prev = NoRun
    /\ held = NoHeld
    /\ r_in = NoResolverArgs
    /\ r_out = Pending
    /\ t_in = NoTevArgs
    /\ t_out = TevPending
    /\ ChangeIdle
    /\ WaterIdle
    /\ ReportIdle

\* TEVCalculator(random_seed): a new calculator; the generator is the
\* process-wide one
Construct(random_seed) ==
    /\ seed' = random_seed
    /\ rng' = SeedState(random_seed)
    /\ results' = NoTable
    /\ simulation_results' = NoList
    /\ runs' = 0
    /\ completed' = 0
    /\ UNCHANGED <<call, ret, prev, held, r_in, r_out, t_in, t_out, changeVars,
                   waterVars, op>>

\* calculator.run_monte_carlo(args); a calculator is run at most MaxRuns times
RunMonteCarlo(args) ==
    /\ runs < MaxRuns
    /\ \E out \in {run_monte_carlo(args, rng, results, simulation_results)} :
         /\ rng' = out.rng
         /\ results' = out.results
         /\ simulation_results' = out.simulation_results
         /\ ret' = [exc |-> out.exc, val |-> out.val, warned |-> out.warned,
                    sims |-> out.simulation_results]
    /\ call' = [k |-> "run", seed |-> seed, start |-> rng, args |-> args]
    /\ runs' = runs + 1
    /\ UNCHANGED <<seed, r_in, r_out, t_in, t_out, changeVars, waterVars, op>>

Run(args) == RunMonteCarlo(args) /\ UNCHANGED <<prev, held, completed>>

Next ==
    \/ \E random_seed \in Seeds : Construct(random_seed)
    \/ \E args \in Calls : Run(args)

Spec == Init /\ [][Next]_vars

(***************************************************************************)
(* Repeated runs, with the call before the latest kept for comparison.     *)
(***************************************************************************)
\* the field filled by updating in place the object it refers to: the
\* object the caller holds has the new content
UpdatedInPlace(old, new) == new

\* self.simulation_results = [] and self.results = pd.DataFrame(...): the
\* field is bound to a new object, and the object it referred to, with
\* content old, keeps that content
Rebound(old, new) == old

RunAgain(args) ==
    /\ RunMonteCarlo(args)
    /\ prev' = [call |-> call, ret |-> ret]
    /\ held' = [val |-> Rebound(ret.val, results'),
                sims |-> Rebound(ret.sims, simulation_results')]
    /\ UNCHANGED completed

NextRuns ==
    \/ \E random_seed \in Seeds : Construct(random_seed)
    \/ \E args \in PairCalls : RunAgain(args)

SpecRuns == Init /\ [][NextRuns]_vars

(***************************************************************************)
(* Runs followed by exports and plots.  An export or plot call sets op to  *)
(* what it did, with the number of runs that had returned on the           *)
(* calculator and the outcome of the latest run at the time of the call.   *)
(***************************************************************************)
\* the runs of this model: a run of two zones, runs in which zone B fails
\* (processed second, and first), a run whose inputs the resolver rejects,
\* and a run whose only zone is skipped
ReportCalls ==
    {BaseArgs(<<ZoneA, ZoneB>>, MaxSims),
     [BaseArgs(<<ZoneA, ZoneB>>, 1) EXCEPT
        !.biomass_stats = OrderedDict(<<ZoneA, ZoneB>>, BioStrB)],
     [BaseArgs(<<ZoneB>>, 1) EXCEPT
        !.case_acres = [z \in {ZoneA} |-> PyFloat(2000)]]}
      \cup {[BaseArgs(o, 1) EXCEPT
               !.user_params =
                  DictObj([z \in {ZoneB} |-> [T_lease |-> Fixed(PyFloat(2500))]])] :
               o \in {<<ZoneA, ZoneB>>, <<ZoneB, ZoneA>>}}

RunThenReport(args) ==
    /\ RunMonteCarlo(args)
    /\ completed' = IF ret'.exc = "none" THEN completed + 1 ELSE completed
    /\ UNCHANGED <<prev, held>>

\* the outcome of the latest run on the calculator
LastRun == IF runs = 0 THEN "norun" ELSE ret.exc

Report(outcome) ==
    /\ op' = outcome
    /\ UNCHANGED <<tevVars, changeVars, waterVars, completed>>

\* export_results(filepath)
ExportResults ==
    Report([k |-> "export_results", exc |-> "none",
            notice |-> results.k = "none",
            wrote |-> results,
            drew |-> <<>>, completed |-> completed, last |-> LastRun])

\* plot_distributions(): one histogram per entry of self.simulation_results
PlotDistributions ==
    Report([k |-> "plot_distributions", exc |-> "none",
            notice |-> simulation_results.k = "none",
            wrote |-> NoTable,
            drew |-> simulation_results.items,
            completed |-> completed, last |-> LastRun])

\* plot_boxplots(): the long table of all samples; sns.boxplot raises when
\* the table is empty and so has no column 'Case'
PlotBoxplots ==
    Report([k |-> "plot_boxplots",
            exc |-> IF simulation_results.k = "list"
                       /\ \A i \in 1..Len(simulation_results.items) :
                            simulation_results.items[i].TEV = <<>>
                    THEN "ValueError" ELSE "none",
            notice |-> simulation_results.k = "none",
            wrote |-> NoTable,
            drew |-> IF \A i \in 1..Len(simulation_results.items) :
                          simulation_results.items[i].TEV = <<>>
                     THEN <<>> ELSE simulation_results.items,
            completed |-> completed, last |-> LastRun])

NextReport ==
    \/ \E random_seed \in Seeds : Construct(random_seed)
    \/ \E args \in ReportCalls : RunThenReport(args)
    \/ ExportResults
    \/ PlotDistributions
    \/ PlotBoxplots

SpecReport == Init /\ [][NextReport]_vars

(***************************************************************************)
(* calculate_tev as a function of its arguments and the generator state:   *)
(* both are drawn in the initial state and the call computes the outcome.  *)
(***************************************************************************)
InitTev ==
    /\ t_in \in TevInputs
    /\ t_out = TevPending
    /\ seed = 42
    /\ rng = t_in.rng
    /\ results = NoTable
    /\ simulation_results = NoList
    /\ runs = 0
    /\ call = NoCall
    /\ ret = NoRet
    /\ prev = NoRun
    /\ held = NoHeld
    /\ r_in = NoResolverArgs
    /\ r_out = Pending
    /\ ChangeIdle
    /\ WaterIdle
    /\ ReportIdle

CalculateTev ==
    /\ t_out.exc = "pending"
    /\ \E out \in {calculate_tev(t_in.case_params, t_in.total_acres,
                                  t_in.num_simulations, rng)} :
         /\ rng' = out.rng
         /\ t_out' = [exc |-> out.exc, vals |-> out.vals, rng |-> out.rng,
                      evals |-> Evaluations(t_in.case_params, 1,
                                            t_in.num_simulations, rng)]
    /\ UNCHANGED <<t_in, seed, results, simulation_results, runs, call, ret, prev,
                   held, r_in, r_out, changeVars, waterVars, reportVars>>

NextTev == CalculateTev

SpecTev == InitTev /\ [][NextTev]_vars

(***************************************************************************)
(* The biomass change calculator.  InitChange is the state after           *)
(* BiomassChangeCalculator(...).                                           *)
(***************************************************************************)
InitChange ==
    /\ focal_species \in FocalLayers
    /\ carbon_fraction \in CarbonFractions
    /\ credit_price_per_ton \in CreditPrices
    /\ quality_mask = NoImage
    /\ change_sd = NoImage
    /\ b_call = NoChangeCall
    /\ b_ret = NoChangeRet
    /\ seed = 42
    /\ rng = SeedState(42)
    /\ results = NoTable
    /\ simulation_results = NoList
    /\ runs = 0
    /\ call = NoCall
    /\ ret = NoRet
    /\ prev = NoRun
    /\ held = NoHeld
    /\ r_in = NoResolverArgs
    /\ r_out = Pending
    /\ t_in = NoTevArgs
    /\ t_out = TevPending
    /\ WaterIdle
    /\ ReportIdle

\* calculator.calculate_change(...): the quality data are loaded when the
\* call filters, then the statistics are computed with the stored images
CalculateChange(c) ==
    /\ quality_mask' = load_quality_data(c.pre_year, c.apply_quality_filter,
                                         quality_mask)
    /\ change_sd' = load_quality_data(c.pre_year, c.apply_quality_filter,
                                      change_sd)
    /\ b_call' = c
    /\ b_ret' = calculate_change(c, focal_species, carbon_fraction,
                                 credit_price_per_ton, quality_mask', change_sd')
    /\ UNCHANGED <<focal_species, carbon_fraction, credit_price_per_ton, tevVars,
                   waterVars, reportVars>>

NextChange == \E c \in ChangeCalls : CalculateChange(c)

SpecChange == InitChange /\ [][NextChange]_vars

(***************************************************************************)
(* calculate_for_multiple_aois as a function of its arguments and of what  *)
(* Earth Engine answers: both are drawn in the initial state and the call  *)
(* computes the outcome.                                                   *)
(***************************************************************************)
InitWater ==
    /\ w_in \in WaterInputs
    /\ w_out = WaterPending
    /\ seed = 42
    /\ rng = SeedState(42)
    /\ results = NoTable
    /\ simulation_results = NoList
    /\ runs = 0
    /\ call = NoCall
    /\ ret = NoRet
    /\ prev = NoRun
    /\ held = NoHeld
    /\ r_in = NoResolverArgs
    /\ r_out = Pending
    /\ t_in = NoTevArgs
    /\ t_out = TevPending
    /\ ChangeIdle
    /\ ReportIdle

CalculateForMultipleAois ==
    /\ w_out.exc = "pending"
    /\ w_out' = calculate_for_multiple_aois(w_in.aois, w_in.water_price,
                                            w_in.et_scale_factor)
    /\ UNCHANGED <<w_in, tevVars, changeVars, reportVars>>

NextWater == CalculateForMultipleAois

SpecWater == InitWater /\ [][NextWater]_vars

(***************************************************************************)
(* Properties of the resolver (checked under SpecResolver).                *)
(***************************************************************************)
Done == r_out.exc # "pending"

Returned == r_out.exc = "none"

CallZones == Range(r_in.biomass_stats.order)

TenFields ==
    {"V_t", "pvc_per_acre", "water_quality_value", "E_Pt", "g",
     "endangered_species_WTP", "R_t_lease", "T_lease", "r_lease", "epsilon_t"}

EconFields ==
    {"E_Pt", "g", "endangered_species_WTP", "R_t_lease", "T_lease", "r_lease",
     "epsilon_t"}

\* the zone identifier without '_LLP', written out for the zones of the model
StrippedName(z) ==
    IF z = CS1 \o LLP THEN CS1
    ELSE IF z = CS3 \o LLP THEN CS3
    ELSE IF z = <<"X">> \o LLP THEN <<"X">>
    ELSE z

\* the water-yield input holds, under key, a mapping with a numeric mean
HasWaterMean(w, key) ==
    /\ w.k = "dict"
    /\ key \in DOMAIN w.d
    /\ w.d[key].k = "dict"
    /\ "water_yield_per_acre_usd" \in DOMAIN w.d[key].d
    /\ IsNumber(w.d[key].d["water_yield_per_acre_usd"])

\* the water-yield input holds no entry under key, or holds None
NoWaterEntry(w, key) ==
    \/ w.k = "none"
    \/ key \notin DOMAIN w.d
    \/ w.d[key].k = "none"

\* (m, s): s the supplied std if present, a tenth of m otherwise
WaterPairOf(entry) ==
    LET m == entry["water_yield_per_acre_usd"]
    IN  Tuple2(m, IF "water_yield_std_per_acre_usd" \in DOMAIN entry
                  THEN entry["water_yield_std_per_acre_usd"]
                  ELSE PyFloat(m.v \div 10))

\* the water pair of zone z is the one the entry under key determines
WaterResolvedUnder(z, key) ==
    LET w == r_in.water_yield_stats
        p == r_out.val.at[z].water_quality_value
    IN  /\ HasWaterMean(w, key) => p = WaterPairOf(w.d[key].d)
        /\ NoWaterEntry(w, key) =>
              p = Tuple2(PyFloat(100000), PyFloat(2000))

\* C2: a zone whose biomass or emissions measurement is absent is signalled
\* with a MissingInputError and never gets a parameter set built from
\* substitute values.
C2_MissingInputSignalled ==
    Done =>
      \A z \in DOMAIN r_in.biomass_stats.at \cup DOMAIN r_in.emissions_stats :
        (z \notin DOMAIN r_in.biomass_stats.at \/ z \notin DOMAIN r_in.emissions_stats)
          => /\ z \notin DOMAIN r_out.val.at
             /\ r_out.exc = "MissingInputError"

\* C2, the part about zones of the biomass input alone: no parameter set is
\* built for a zone that has no emissions entry.
C2_NoSubstituteEmissions ==
    Returned =>
      \A z \in DOMAIN r_out.val.at : z \in DOMAIN r_in.emissions_stats

\* a water entry is present for the zone but lacks the per-acre mean field
MalformedWater(z) ==
    LET w == r_in.water_yield_stats
    IN  /\ w.k = "dict"
        /\ StrippedName(z) \in DOMAIN w.d
        /\ w.d[StrippedName(z)].k = "dict"
        /\ "water_yield_per_acre_usd" \notin DOMAIN w.d[StrippedName(z)].d

\* C5: a zone whose water-yield entry lacks the per-acre mean field resolves
\* water_quality_value to the fallback (100.0, 2.0).
C5_MalformedWaterFallsBack ==
    Returned =>
      \A z \in CallZones :
        MalformedWater(z) =>
          r_out.val.at[z].water_quality_value
            = Tuple2(PyFloat(100000), PyFloat(2000))

\* C6 as stated: the water entry is the one keyed by the zone identifier.
C6_WaterKeyedByZoneId ==
    Returned => \A z \in CallZones : WaterResolvedUnder(z, z)

\* C6: the water entry keyed by the zone identifier without '_LLP' that holds
\* a numeric mean m resolves to (m, supplied std or 0.1 * m); no entry, or
\* None, under that key resolves to (100.0, 2.0).
C6_WaterKeyedByStrippedName ==
    Returned => \A z \in CallZones : WaterResolvedUnder(z, StrippedName(z))

C6_Witness ==
    /\ Returned
    /\ \E z \in CallZones :
         /\ z # StrippedName(z)
         /\ HasWaterMean(r_in.water_yield_stats, StrippedName(z))
         /\ r_out.val.at[z].water_quality_value
              = WaterPairOf(r_in.water_yield_stats.d[StrippedName(z)].d)
    /\ \E z \in CallZones :
         /\ HasWaterMean(r_in.water_yield_stats, StrippedName(z))
         /\ "water_yield_std_per_acre_usd"
              \notin DOMAIN r_in.water_yield_stats.d[StrippedName(z)].d

\* every measurement the call reads is a mapping of numbers
MeasurementsUsable ==
    \A z \in CallZones :
      /\ r_in.biomass_stats.at[z].k = "dict"
      /\ z \in DOMAIN r_in.emissions_stats =>
           /\ r_in.emissions_stats[z].k = "dict"
           /\ \A f \in DOMAIN r_in.emissions_stats[z].d :
                IsNumber(r_in.emissions_stats[z].d[f])

\* the water-yield input is None or empty, lacks the zone, or maps it to None
WaterMissing(z) ==
    LET w == r_in.water_yield_stats
    IN  \/ w.k = "none"
        \/ DOMAIN w.d = {}
        \/ z \notin DOMAIN w.d /\ StrippedName(z) \notin DOMAIN w.d
        \/ StrippedName(z) \in DOMAIN w.d /\ w.d[StrippedName(z)].k = "none"

UserMissing(z) ==
    r_in.user_params.k = "none" \/ z \notin DOMAIN r_in.user_params.d

\* C8: when water yield and user overrides are missing for the zones of a
\* call, the resolver returns, and returns all ten fields for every zone.
C8_NoRaiseOnMissingOptional ==
    (Done /\ MeasurementsUsable
          /\ \A z \in CallZones : WaterMissing(z) /\ UserMissing(z))
      => /\ Returned
         /\ \A z \in CallZones :
              z \in DOMAIN r_out.val.at /\ DOMAIN r_out.val.at[z] = TenFields

C8_Witness ==
    /\ Returned
    /\ MeasurementsUsable
    /\ Len(r_in.biomass_stats.order) = 2
    /\ r_in.water_yield_stats.k = "dict"
    /\ r_in.user_params.k = "dict"
    /\ \A z \in CallZones : WaterMissing(z) /\ UserMissing(z)
    /\ \E z \in CallZones :
         /\ StrippedName(z) \in DOMAIN r_in.water_yield_stats.d
         /\ DOMAIN r_out.val.at[z] = TenFields

\* the class row of a zone, written out for the zones of the model
ClassRow(z) ==
    IF z \in {CS1 \o LLP, CS2 \o CS1} THEN SevereRow
    ELSE IF z = CS2 THEN MitigatedRow
    ELSE IF z = CS3 \o LLP THEN HealthyRow
    ELSE GenericRow

HasOverride(z) ==
    r_in.user_params.k = "dict" /\ z \in DOMAIN r_in.user_params.d

\* C9 as stated: every economic field comes from the zone's override entry
\* when there is one, and from the zone's class row otherwise.
C9_FieldsFromOverrideOrTable ==
    Returned =>
      \A z \in CallZones : \A f \in EconFields :
        IF HasOverride(z)
        THEN /\ f \in DOMAIN r_in.user_params.d[z]
             /\ r_out.val.at[z][f] = r_in.user_params.d[z][f]
        ELSE /\ f \in DOMAIN ClassRow(z)
             /\ r_out.val.at[z][f] = ClassRow(z)[f]

\* C9: a field present in the zone's override entry is taken from it; a zone
\* without an entry takes every field but the price shock from its class row
\* (severe, mitigated, healthy, first match in that order, else generic) and
\* the price shock is the scalar 0.
C9_FieldsFromOverrideOrTableAmended ==
    Returned =>
      \A z \in CallZones :
        IF HasOverride(z)
        THEN \A f \in EconFields \cap DOMAIN r_in.user_params.d[z] :
               r_out.val.at[z][f] = r_in.user_params.d[z][f]
        ELSE /\ \A f \in EconFields \ {"epsilon_t"} :
                  r_out.val.at[z][f] = ClassRow(z)[f]
             /\ r_out.val.at[z].epsilon_t = Fixed(PyInt(0))

C9_Witness ==
    /\ Returned
    /\ r_in.biomass_stats.order = <<CS2 \o CS1, <<"X">> >>
    /\ ~HasOverride(CS2 \o CS1)
    /\ r_out.val.at[CS2 \o CS1].g = SevereRow.g
    /\ HasOverride(<<"X">>)
    /\ "g" \notin DOMAIN r_in.user_params.d[<<"X">>]
    /\ r_out.val.at[<<"X">>].E_Pt = r_in.user_params.d[<<"X">>].E_Pt

\* the zone has all four measurement values, all numbers
FullyMeasured(z) ==
    /\ r_in.biomass_stats.at[z].k = "dict"
    /\ {"AGB_per_acre_tons", "AGB_StdDev_per_acre_tons"}
         \subseteq DOMAIN r_in.biomass_stats.at[z].d
    /\ z \in DOMAIN r_in.emissions_stats
    /\ r_in.emissions_stats[z].k = "dict"
    /\ {"CO2_mean_tons_per_acre", "CO2_std_tons_per_acre"}
         \subseteq DOMAIN r_in.emissions_stats[z].d
    /\ \A f \in DOMAIN r_in.emissions_stats[z].d :
         IsNumber(r_in.emissions_stats[z].d[f])

\* C10: V_t is the biomass pair unchanged and pvc_per_acre is the emissions
\* pair with both the mean and the std multiplied by the carbon price.
C10_MeasurementPairs ==
    Returned =>
      \A z \in CallZones :
        FullyMeasured(z) =>
          LET b == r_in.biomass_stats.at[z].d
              e == r_in.emissions_stats[z].d
              price == r_in.carbon_credit_price.v
          IN  /\ r_out.val.at[z].V_t
                   = Tuple2(b["AGB_per_acre_tons"], b["AGB_StdDev_per_acre_tons"])
              /\ r_out.val.at[z].pvc_per_acre
                   = Tuple2(PyFloat((e["CO2_mean_tons_per_acre"].v * price) \div 1000),
                            PyFloat((e["CO2_std_tons_per_acre"].v * price) \div 1000))

C10_Witness ==
    /\ Returned
    /\ \E z \in CallZones :
         /\ FullyMeasured(z)
         /\ r_in.carbon_credit_price = PyFloat(2500)
         /\ r_in.emissions_stats[z].d["CO2_std_tons_per_acre"].v > 0
         /\ r_out.val.at[z].pvc_per_acre.s
              # r_in.emissions_stats[z].d["CO2_std_tons_per_acre"]
         /\ r_out.val.at[z].V_t.m = r_in.biomass_stats.at[z].d["AGB_per_acre_tons"]

(***************************************************************************)
(* Properties of run_monte_carlo (checked under Spec and SpecRuns).        *)
(***************************************************************************)
Ran == call.k = "run"

RanTwice == prev.call.k = "run" /\ call.k = "run"

CasesOf(entries) == [i \in 1..Len(entries) |-> entries[i].Case]

\* C1: two runs made with the same seed and identical inputs have identical
\* per-zone sample sequences and summary rows.
C1_SameSeedSameInputsSameResults ==
    (RanTwice /\ prev.call.seed = call.seed /\ prev.call.args = call.args)
      => /\ prev.ret.exc = ret.exc
         /\ prev.ret.sims = ret.sims
         /\ prev.ret.val = ret.val

\* the latest run of zone z alone, from the same generator state
RunAlone(z) ==
    run_monte_carlo(
        [call.args EXCEPT !.biomass_stats =
            [order |-> <<z>>, at |-> [x \in {z} |-> call.args.biomass_stats.at[z]]]],
        call.start, NoTable, NoList)

\* the zone's own inputs are valid: alone, it is simulated and gets its row
ValidZone(z) == RunAlone(z).exc = "none" /\ Len(RunAlone(z).val.rows) = 1

\* C3: whatever fails for one zone, the run completes, every zone with valid
\* inputs has its row and its sample sequence, and self.results and
\* self.simulation_results describe the same zones.
C3_ZoneFailureIsolated ==
    Ran =>
      /\ ret.exc = "none"
      /\ \A z \in Range(call.args.biomass_stats.order) :
           ValidZone(z) =>
             /\ z \in Range(CasesOf(ret.val.rows))
             /\ z \in Range(CasesOf(ret.sims.items))
      /\ (results.k = "none") = (simulation_results.k = "none")
      /\ CasesOf(results.rows) = CasesOf(simulation_results.items)

\* the acreage of zone z in case_acres is zero, negative, or absent
NoAcreage(z) ==
    \/ z \notin DOMAIN call.args.case_acres
    \/ ~IsNumber(call.args.case_acres[z])
    \/ call.args.case_acres[z].v <= 0

\* C4: a zone whose acreage is zero, negative or absent is reported as
\* skipped and has neither a summary row nor a sample sequence; the run does
\* not raise and the zones with acreage > 0 are processed.
C4_NoAcreageSkipped ==
    (Ran /\ \E z \in Range(call.args.biomass_stats.order) : NoAcreage(z))
      => /\ ret.exc = "none"
         /\ \A z \in Range(call.args.biomass_stats.order) :
              IF NoAcreage(z)
              THEN /\ z \in Range(ret.warned)
                   /\ z \notin Range(CasesOf(ret.val.rows))
                   /\ z \notin Range(CasesOf(ret.sims.items))
              ELSE /\ z \in Range(CasesOf(ret.val.rows))
                   /\ z \in Range(CasesOf(ret.sims.items))

\* the arguments omit the water-yield input
OmitsWater(args) == args.water_yield_stats.k = "none"

\* the arguments supply mean 100.0 and std 2.0 for each zone
SuppliesFallback(args) ==
    \A z \in Range(args.biomass_stats.order) :
      \E key \in {z, StrippedName(z)} :
        /\ args.water_yield_stats.k = "dict"
        /\ key \in DOMAIN args.water_yield_stats.d
        /\ args.water_yield_stats.d[key]
             = DictObj([water_yield_per_acre_usd |-> PyFloat(100000),
                        water_yield_std_per_acre_usd |-> PyFloat(2000)])

SameButWater(a, b) ==
    [a EXCEPT !.water_yield_stats = NoneObj] = [b EXCEPT !.water_yield_stats = NoneObj]

ResolvedBy(args) ==
    create_economic_parameters(args.biomass_stats, args.emissions_stats,
        args.water_yield_stats, args.user_params, args.carbon_credit_price)

\* one of the two runs omits the water yield, the other supplies the pair
FallbackPair(a, b) ==
    /\ SameButWater(a, b)
    /\ \/ OmitsWater(a) /\ SuppliesFallback(b)
       \/ OmitsWater(b) /\ SuppliesFallback(a)

\* C7: with the same seed and all other inputs equal, a run that omits the
\* water yield and a run that supplies (100.0, 2.0) for each zone have the
\* same resolved parameters, sample sequences and summary.
C7_FallbackLaw ==
    (RanTwice /\ prev.call.seed = call.seed
              /\ FallbackPair(prev.call.args, call.args))
      => /\ ResolvedBy(prev.call.args) = ResolvedBy(call.args)
         /\ prev.ret.sims = ret.sims
         /\ prev.ret.val = ret.val

\* the fallback law for two runs that start from the same generator state
C7_FallbackLawFromSameState ==
    (RanTwice /\ prev.call.start = call.start
              /\ FallbackPair(prev.call.args, call.args))
      => /\ ResolvedBy(prev.call.args) = ResolvedBy(call.args)
         /\ prev.ret.sims = ret.sims
         /\ prev.ret.val = ret.val

(***************************************************************************)
(* Properties of the parameter sets handed to calculate_tev (checked under *)
(* SpecResolver).                                                          *)
(***************************************************************************)
\* a number, or a (mean, std) pair of numbers
NumberOrPair(param) ==
    IF param.k = "tuple" THEN IsNumber(param.m) /\ IsNumber(param.s)
    ELSE IsNumber(param.m)

\* C11: in every parameter set the resolver returns, each stochastic field
\* is a number or a (mean, std) pair of numbers, never None.
C11_StochasticFieldsAreNumbers ==
    Returned =>
      \A z \in CallZones : \A f \in Range(StochasticFields) :
        NumberOrPair(r_out.val.at[z][f])

(***************************************************************************)
(* Properties of calculate_tev (checked under SpecTev).                    *)
(***************************************************************************)
TevDone == t_out.exc # "pending"

TevReturned == t_out.exc = "none"

\* the value evaluation e drew for field f
Sampled(e, f) == e.v[f].v

SampledTimber(e) ==
    FMul(Sampled(e, "E_Pt") + Sampled(e, "epsilon_t"), Sampled(e, "V_t"))
      - Sampled(e, "g")

SampledCarbon(e) == Sampled(e, "pvc_per_acre")

SampledEcosystem(e) ==
    Sampled(e, "water_quality_value") + Sampled(e, "endangered_species_WTP")

\* the returned value for a per-acre value x
Returned_for(x) ==
    IF ScalesByAcres(t_in.total_acres) THEN FMul(x, t_in.total_acres.v) ELSE x

\* C12: the per-acre value of every evaluation is timber + carbon +
\* ecosystem + lease, with timber = (E_Pt + epsilon_t) * V_t - g, carbon =
\* pvc_per_acre and ecosystem = water_quality_value + endangered_species_WTP
\* of the values the evaluation drew.
C12_TotalIsSumOfFourComponents ==
    TevReturned =>
      \A i \in 1..Len(t_out.evals) :
        t_out.vals[i] =
          Returned_for(SampledTimber(t_out.evals[i])
                         + SampledCarbon(t_out.evals[i])
                         + SampledEcosystem(t_out.evals[i])
                         + LeaseValue(t_in.case_params,
                                      t_out.evals[i].v["r_lease"]))

C12_Witness ==
    /\ TevReturned
    /\ t_in.case_params = LongScheduleParams
    /\ Len(t_out.evals) >= 2
    /\ t_out.evals[1].v # t_out.evals[2].v
    /\ LeaseValue(t_in.case_params, t_out.evals[2].v["r_lease"]) > 0
    /\ SampledEcosystem(t_out.evals[2]) > 0

\* (1 + r) ** t
RECURSIVE Power(_, _)
Power(r, t) == IF t = 0 THEN 1000 ELSE FMul(Power(r, t - 1), 1000 + r)

\* R_t: the t-th entry of the schedule, 0 beyond its end
RevenueAt(R_t_lease, t) == IF t <= Len(R_t_lease) THEN R_t_lease[t] ELSE 0

\* the sum over t = 1..T of R_t / (1 + r) ** t
RECURSIVE DiscountedRevenue(_, _, _)
DiscountedRevenue(R_t_lease, r, T) ==
    IF T = 0 THEN 0
    ELSE DiscountedRevenue(R_t_lease, r, T - 1)
           + (RevenueAt(R_t_lease, T) * 1000) \div Power(r, T)

\* C13: the lease component of every evaluation is the sum over
\* t = 1..T_lease of R_t / (1 + r) ** t, R_t being 0 beyond the end of the
\* schedule and r the one discount rate the evaluation drew; entries beyond
\* T_lease contribute nothing.
C13_LeaseIsDiscountedRevenue ==
    TevReturned =>
      \A i \in 1..Len(t_out.evals) :
        t_out.vals[i] =
          Returned_for(SampledTimber(t_out.evals[i])
                         + SampledCarbon(t_out.evals[i])
                         + SampledEcosystem(t_out.evals[i])
                         + DiscountedRevenue(t_in.case_params.R_t_lease,
                               Sampled(t_out.evals[i], "r_lease"),
                               LeaseYears(t_in.case_params.T_lease)))

C13_Witness ==
    /\ TevReturned
    /\ t_in.case_params = LongScheduleParams
    /\ Len(t_out.evals) >= 1
    /\ Sampled(t_out.evals[1], "r_lease") # t_in.case_params.r_lease.m.v
    /\ Len(t_in.case_params.R_t_lease) > LeaseYears(t_in.case_params.T_lease)
    /\ t_in.case_params.R_t_lease[Len(t_in.case_params.R_t_lease)] > 0

\* the generator state after n draws
RECURSIVE Advance(_, _)
Advance(state, n) == IF n = 0 THEN state ELSE NextState(Advance(state, n - 1))

\* the number of pair-valued fields among the first n stochastic fields
PairsAmong(params, n) ==
    Cardinality({q \in 1..n : params[StochasticFields[q]].k = "tuple"})

\* the value of the p-th stochastic field in an evaluation that starts in
\* generator state start: a pair takes the draw that follows the draws of
\* the pairs before it, a scalar is the parameter itself
ExpectedField(params, p, start) ==
    IF params[StochasticFields[p]].k = "tuple"
    THEN Normal(params[StochasticFields[p]].m, params[StochasticFields[p]].s,
                Advance(start, PairsAmong(params, p - 1)))
    ELSE params[StochasticFields[p]].m

\* C14: every evaluation invokes the sampler once per stochastic field in
\* the order of StochasticFields; a pair consumes one draw of the generator,
\* a scalar is returned unchanged and consumes none, so an evaluation
\* advances the generator by the number of pair-valued fields and each
\* evaluation starts where the one before it ended.
C14_OneDrawPerPairInFixedOrder ==
    TevReturned =>
      /\ \A i \in 1..Len(t_out.evals) :
           /\ \A p \in 1..Len(StochasticFields) :
                t_out.evals[i].v[StochasticFields[p]]
                  = ExpectedField(t_in.case_params, p, t_out.evals[i].start)
           /\ t_out.evals[i].rng
                = Advance(t_out.evals[i].start,
                          PairsAmong(t_in.case_params, Len(StochasticFields)))
           /\ t_out.evals[i].start
                = IF i = 1 THEN t_in.rng ELSE t_out.evals[i - 1].rng
      /\ t_out.rng = Advance(t_in.rng, Len(t_out.evals)
                         * PairsAmong(t_in.case_params, Len(StochasticFields)))

C14_Witness ==
    /\ TevReturned
    /\ t_in.case_params = SevereParams
    /\ Len(t_out.evals) >= 2
    /\ PairsAmong(t_in.case_params, Len(StochasticFields)) = 6
    /\ t_out.rng # t_in.rng

\* every stochastic field is a fixed scalar or a pair with std = 0
ZeroVariance(params) ==
    \A f \in Range(StochasticFields) :
      /\ NumberOrPair(params[f])
      /\ params[f].k = "tuple" => params[f].s.v = 0

\* the TEV per acre computed from the means (or fixed values) of the fields
ClosedForm(params) ==
    FMul(params.E_Pt.m.v + params.epsilon_t.m.v, params.V_t.m.v) - params.g.m.v
      + params.pvc_per_acre.m.v
      + params.water_quality_value.m.v + params.endangered_species_WTP.m.v
      + DiscountedRevenue(params.R_t_lease, params.r_lease.m.v,
                          LeaseYears(params.T_lease))

\* C15: when every stochastic field is a fixed scalar or a pair with
\* std = 0, every evaluation returns the closed-form TEV of the means,
\* whatever the generator state and however many evaluations came before.
C15_ZeroVarianceIsDeterministic ==
    (TevReturned /\ ZeroVariance(t_in.case_params)) =>
      \A i \in 1..Len(t_out.vals) :
        t_out.vals[i] = Returned_for(ClosedForm(t_in.case_params))

C15_Witness ==
    /\ TevReturned
    /\ t_in.case_params = ZeroVarianceParams
    /\ Len(t_out.vals) >= 2
    /\ t_out.rng # t_in.rng
    /\ StdNormal(t_in.rng) # 0

\* a parameter set of the data model: numeric stochastic fields, an int
\* lease horizon, a discount rate that cannot be -1
ValidParams(params) ==
    /\ \A f \in Range(StochasticFields) : NumberOrPair(params[f])
    /\ params.T_lease.k = "scalar" /\ params.T_lease.m.k = "int"
    /\ ~(params.r_lease.m.v = -1000
           /\ (params.r_lease.k = "tuple" => params.r_lease.s.v = 0))

\* the call returned num_simulations values, the i-th from the i-th
\* evaluation, the evaluations following one another on the generator
ExactlyNEvaluations ==
    /\ TevReturned
    /\ Len(t_out.evals) = t_in.num_simulations
    /\ Len(t_out.vals) = t_in.num_simulations
    /\ \A i \in 1..Len(t_out.evals) :
         /\ t_out.vals[i] = Returned_for(TevPerAcre(t_in.case_params,
                                                    t_out.evals[i].v))
         /\ t_out.evals[i].start
              = IF i = 1 THEN t_in.rng ELSE t_out.evals[i - 1].rng

\* C16: calculate_tev(params, acreage, N) on a valid parameter set ends
\* having performed exactly N evaluations and returns exactly N values, the
\* i-th from the i-th evaluation in draw order, for every N >= 0.
C16_ExactlyNValues ==
    (TevDone /\ ValidParams(t_in.case_params)) => ExactlyNEvaluations

C16_Witness ==
    /\ ExactlyNEvaluations
    /\ ValidParams(t_in.case_params)
    /\ t_in.num_simulations >= 2
    /\ t_out.vals[1] # t_out.vals[2]
    /\ LeaseYears(t_in.case_params.T_lease) = 5

\* what calculate_tev returns for the same parameters, number of
\* simulations and generator state with the acreage total_acres
ValuesWithAcres(total_acres) ==
    calculate_tev(t_in.case_params, total_acres, t_in.num_simulations,
                  t_in.rng).vals

\* the per-acre values of the evaluations
PerAcreValues ==
    [i \in 1..Len(t_out.evals) |->
       TevPerAcre(t_in.case_params, t_out.evals[i].v)]

\* C17: from the same generator state, calculate_tev with an acreage A > 0
\* returns element-wise A times what it returns with acreage 0 and with
\* acreage None; with acreage 0 or None it returns the per-acre values.
C17_ScalingLaw ==
    TevReturned =>
      /\ ScalesByAcres(t_in.total_acres) =>
           \A unscaled \in {ValuesWithAcres(PyInt(0)), ValuesWithAcres(PyNone)} :
             /\ Len(t_out.vals) = Len(unscaled)
             /\ \A i \in 1..Len(unscaled) :
                  t_out.vals[i] = FMul(unscaled[i], t_in.total_acres.v)
      /\ t_in.total_acres \in {PyInt(0), PyNone} => t_out.vals = PerAcreValues

C17_Witness ==
    /\ TevReturned
    /\ t_in.total_acres = PyFloat(2000)
    /\ Len(t_out.vals) >= 2
    /\ t_out.vals[1] # 0
    /\ t_out.vals[1] = FMul(ValuesWithAcres(PyNone)[1], 2000)
    /\ t_out.vals[1] # ValuesWithAcres(PyNone)[1]

(***************************************************************************)
(* Properties of the summary table (checked under Spec).                   *)
(***************************************************************************)
\* the rows of the table the latest run returned
Rows == ret.val.rows

\* the parameter set of the zone of row j
RowParams(j) == ResolvedBy(call.args).val.at[Rows[j].Case]

\* the number of draws made for the rows before row j + 1
RECURSIVE DrawsThrough(_)
DrawsThrough(j) ==
    IF j = 0 THEN 0
    ELSE DrawsThrough(j - 1)
           + call.args.num_simulations
               * PairsAmong(RowParams(j), Len(StochasticFields))

\* the per-acre draws of the zone of row j (a skipped zone draws nothing)
RowPerAcre(j) ==
    calculate_tev(RowParams(j), PyNone, call.args.num_simulations,
                  Advance(call.start, DrawsThrough(j - 1))).vals

\* C18: every row of the summary table holds, next to Acres = A, the
\* statistics of the zone's per-acre draws multiplied by A; no row holds
\* the statistics of the unscaled per-acre draws.
C18_RowsHoldZoneTotals ==
    (Ran /\ ret.exc = "none") =>
      \A j \in 1..Len(Rows) :
        Rows[j] = SummaryRow(Rows[j].Case, Rows[j].Acres,
                             [i \in 1..Len(RowPerAcre(j)) |->
                                FMul(RowPerAcre(j)[i], Rows[j].Acres.v)])

\* the sample sequence stored for row j
Samples(j) == ret.sims.items[j].TEV

\* the statistics of a row
RowStatistics(row) ==
    {row.Mean_TEV, row.Median_TEV, row.Q25_TEV, row.Q75_TEV, row.Min_TEV,
     row.Max_TEV}

\* C19: with num_simulations = 1 every row has Std_TEV exactly 0 and
\* Mean_TEV = Median_TEV = Q25_TEV = Q75_TEV = Min_TEV = Max_TEV = the one
\* sample; for every number of simulations the row is over the whole sample
\* sequence: its minimum and maximum are samples that bound all samples and
\* its mean is their sum divided by their number.
C19_SingleSampleSummary ==
    (Ran /\ ret.exc = "none") =>
      \A j \in 1..Len(Rows) :
        /\ Len(Samples(j)) = call.args.num_simulations
        /\ call.args.num_simulations = 1 =>
             /\ Rows[j].Std_TEV = 0
             /\ RowStatistics(Rows[j]) = {Samples(j)[1]}
        /\ Rows[j].Min_TEV \in Range(Samples(j))
        /\ Rows[j].Max_TEV \in Range(Samples(j))
        /\ \A x \in Range(Samples(j)) :
             Rows[j].Min_TEV <= x /\ x <= Rows[j].Max_TEV
        /\ Rows[j].Mean_TEV = SumSeq(Samples(j)) \div Len(Samples(j))

C19_Witness ==
    /\ Ran /\ ret.exc = "none"
    /\ call.args.num_simulations = 1
    /\ Len(Rows) = 2
    /\ Samples(1)[1] # 0
    /\ Rows[1].Mean_TEV = Samples(1)[1]
    /\ Rows[1].Std_TEV = 0

InputZones ==
    Range(call.args.biomass_stats.order)
      \cup DOMAIN call.args.emissions_stats
      \cup DOMAIN call.args.case_acres

\* the zone is in the report: it has a summary row or it was named in a
\* warning as skipped
Reported(z) == z \in Range(CasesOf(ret.val.rows)) \/ z \in Range(ret.warned)

\* C21: after a run that returns, every zone of the input (biomass,
\* emissions or acreage) either has a summary row or is named as skipped;
\* no input zone is missing from the report.
C21_EveryInputZoneReported ==
    (Ran /\ ret.exc = "none") => \A z \in InputZones : Reported(z)

\* the part of C21 that the code keeps: every zone of the biomass input has
\* a row or a warning
C21_EveryBiomassZoneReported ==
    (Ran /\ ret.exc = "none")
      => \A z \in Range(call.args.biomass_stats.order) : Reported(z)

C21_ZoneDroppedUnreported ==
    /\ Ran /\ ret.exc = "none"
    /\ call.args.biomass_stats.order = <<ZoneA>>
    /\ ZoneB \in DOMAIN call.args.case_acres
    /\ call.args.case_acres[ZoneB].v > 0
    /\ ZoneB \in DOMAIN call.args.emissions_stats
    /\ ~Reported(ZoneB)

\* the sample sequence calculate_tev returns for the zone of row j, called
\* with the acreage of the row in the generator state the rows before it
\* left
OwnSamples(j) ==
    calculate_tev(RowParams(j), Rows[j].Acres, call.args.num_simulations,
                  Advance(call.start, DrawsThrough(j - 1))).vals

\* C22: every row of the returned table has Case equal to a zone of the
\* biomass input, Acres equal to the acreage case_acres holds for that zone
\* and the seven statistics (mean, std, median, quartiles, minimum, maximum)
\* of that zone's own sample sequence, which is the one stored with the
\* same Case at the same position.
C22_RowIsOfItsZone ==
    (Ran /\ ret.exc = "none") =>
      \A j \in 1..Len(Rows) :
        /\ Rows[j].Case \in Range(call.args.biomass_stats.order)
        /\ Rows[j].Case \in DOMAIN call.args.case_acres
        /\ Rows[j].Acres = call.args.case_acres[Rows[j].Case]
        /\ ret.sims.items[j].Case = Rows[j].Case
        /\ Samples(j) = OwnSamples(j)
        /\ Rows[j].Mean_TEV = Mean(OwnSamples(j))
        /\ Rows[j].Std_TEV = Std(OwnSamples(j))
        /\ Rows[j].Median_TEV = Percentile(OwnSamples(j), 50)
        /\ Rows[j].Q25_TEV = Percentile(OwnSamples(j), 25)
        /\ Rows[j].Q75_TEV = Percentile(OwnSamples(j), 75)
        /\ Rows[j].Min_TEV = Sorted(OwnSamples(j))[1]
        /\ Rows[j].Max_TEV = Sorted(OwnSamples(j))[Len(OwnSamples(j))]

C22_Witness ==
    /\ Ran /\ ret.exc = "none"
    /\ call.args.num_simulations = MaxSims
    /\ Len(Rows) = 2
    /\ Rows[1].Case = ZoneB /\ Rows[2].Case = ZoneA
    /\ Rows[2].Acres = call.args.case_acres[ZoneA]
    /\ Rows[2].Mean_TEV = Mean(Samples(2))
    /\ Rows[2].Mean_TEV # Mean(Samples(1))
    /\ Rows[2].Min_TEV < Rows[2].Max_TEV

(***************************************************************************)
(* The order of the draws of a run over its zones (checked under Spec).    *)
(***************************************************************************)
\* the zones of the biomass input the loop does not skip, in enumeration
\* order
ProcessedOrder(args) ==
    SelectSeq(args.biomass_stats.order,
              LAMBDA z : ~IsZeroAcres(Get(args.case_acres, z, PyInt(0))))

\* the generator state at the start of the zone of row j when the run
\* started in state origin: the draws of the rows before it have been made
StartOfRow(j, origin) == Advance(origin, DrawsThrough(j - 1))

\* the draws of the run are made zone after zone in the order of the
\* biomass input and, within a zone, evaluation after evaluation, the first
\* draw of the run being made in state origin
DrawnInOrderFrom(origin) ==
    /\ CasesOf(Rows) = ProcessedOrder(call.args)
    /\ \A j \in 1..Len(Rows) :
         /\ Samples(j) = calculate_tev(RowParams(j), Rows[j].Acres,
                             call.args.num_simulations,
                             StartOfRow(j, origin)).vals
         /\ \A i \in 1..call.args.num_simulations :
              Evaluations(RowParams(j), 1, call.args.num_simulations,
                          StartOfRow(j, origin))[i].start
                = Advance(StartOfRow(j, origin),
                      (i - 1) * PairsAmong(RowParams(j), Len(StochasticFields)))
    /\ runs > 0 => rng = StartOfRow(Len(Rows) + 1, origin)

\* C23: a run processes the zones in the enumeration order of the biomass
\* input, all draws of a zone before any draw of the next and evaluation i
\* before evaluation i + 1, so that the generator state at the start of each
\* zone is determined by the seed, the pair-valued field counts of the
\* zones before it and num_simulations.
C23_DrawOrderFromSeed ==
    (Ran /\ ret.exc = "none") => DrawnInOrderFrom(SeedState(call.seed))

\* the order of the draws relative to the generator state in which the
\* call was made
C23_DrawOrderFromCallState ==
    (Ran /\ ret.exc = "none") => DrawnInOrderFrom(call.start)

\* a second run on the same calculator starts where the first one stopped
C23_SecondRunStartsElsewhere ==
    /\ Ran /\ ret.exc = "none" /\ runs = 2
    /\ Len(Rows) = 2
    /\ call.start # SeedState(call.seed)
    /\ DrawnInOrderFrom(call.start)
    /\ ~DrawnInOrderFrom(SeedState(call.seed))

(***************************************************************************)
(* Properties of the biomass change calculator (checked under SpecChange). *)
(***************************************************************************)
ChangeRan == b_call.k = "change"

\* the mask a call is to compute its statistics with: the one of the start
\* year of its pre-period when it filters, none when it does not
MaskOfCall(c) == IF c.apply_quality_filter THEN Image(c.pre_year) ELSE NoImage

\* the mean CO2 change of the latest call computed with the given mask
MeanWith(mask) ==
    MeanOver(CO2Diff(Divide247105(AGB(b_call.pre_year)),
                     Divide247105(AGB(b_call.post_year)),
                     b_call.resolution, b_ret.carbon_fraction),
             Unmasked(ClipGeometry(focal_species, b_call.aoi), mask))

\* C24: the statistics of a calculate_change call are computed with a
\* quality mask if and only if that call was made with
\* apply_quality_filter = True, the mask is the one of the start year of
\* that call's pre-period, and 'quality_filter_applied' in the result says
\* whether a mask was used, whatever the calls made before on the same
\* calculator.
C24_MaskIsOfTheCall ==
    ChangeRan =>
      /\ b_ret.quality_mask = MaskOfCall(b_call)
      /\ b_ret.quality_filter_applied = (b_ret.quality_mask.k = "image")
      /\ b_ret.results.CO2_mean_tons_per_acre = MeanWith(MaskOfCall(b_call))

\* the part of C24 the code keeps: a call that filters uses the mask of
\* its own start year, and the first call on a calculator uses a mask only
\* if it filters
C24_FilteringCallUsesItsMask ==
    (ChangeRan /\ b_call.apply_quality_filter) =>
      /\ b_ret.quality_mask = Image(b_call.pre_year)
      /\ b_ret.quality_filter_applied
      /\ b_ret.results.CO2_mean_tons_per_acre = MeanWith(Image(b_call.pre_year))

\* a call that does not filter after one that did: the statistics are
\* computed with the mask the earlier call loaded and the flag is False
C24_StaleMaskUsed ==
    /\ ChangeRan
    /\ ~b_call.apply_quality_filter
    /\ ~b_ret.quality_filter_applied
    /\ b_ret.quality_mask = Image(2010)
    /\ b_call.pre_year = 2017
    /\ b_ret.results.CO2_mean_tons_per_acre = MeanWith(Image(2010))
    /\ b_ret.results.CO2_mean_tons_per_acre # MeanWith(NoImage)
    /\ b_ret.results.CO2_std_tons_per_acre.k = "float"

(***************************************************************************)
(* Properties of calculate_for_multiple_aois and of the resolver on what   *)
(* it returns (checked under SpecWater).                                   *)
(***************************************************************************)
WaterDone == w_out.exc # "pending"

\* the calculation fails for the area of interest: a request fails, or
\* there is no ET or no precipitation value
AoiFails(a) ==
    \/ w_in.aois.at[a].ee = "error"
    \/ ~IsNumber(w_in.aois.at[a].ET)
    \/ ~IsNumber(w_in.aois.at[a].ppt)

\* the result of the area of interest computed alone
OwnResult(a) ==
    calculate_water_yield(w_in.aois.at[a], w_in.water_price,
                          w_in.et_scale_factor).val

\* the zones whose water-yield entry is looked up under the name a
ZonesOfAoi(a) == {z \in ZoneNames : Remove(z, LLP) = a}

\* C25: calculate_for_multiple_aois never raises and returns a mapping with
\* exactly one key per input area of interest; an area whose calculation
\* fails maps to None, every other area maps to its own result; the
\* resolver gives a zone whose entry is None the pair (100.0, 2.0) and a
\* zone whose entry is a result the mean and std of that result.
C25_AoiFailuresIsolated ==
    WaterDone =>
      /\ w_out.exc = "none"
      /\ DOMAIN w_out.val.d = Range(w_in.aois.order)
      /\ \A a \in Range(w_in.aois.order) :
           IF AoiFails(a)
           THEN /\ w_out.val.d[a] = NoneObj
                /\ \A z \in ZonesOfAoi(a) :
                     WaterPair(z, w_out.val) = Tuple2(PyFloat(100000), PyFloat(2000))
           ELSE /\ w_out.val.d[a] = OwnResult(a)
                /\ \A z \in ZonesOfAoi(a) :
                     WaterPair(z, w_out.val)
                       = Tuple2(OwnResult(a).d.water_yield_per_acre_usd,
                                OwnResult(a).d.water_yield_std_per_acre_usd)

C25_Witness ==
    /\ WaterDone /\ w_out.exc = "none"
    /\ w_in.aois.order = <<CS1, <<"X">>>>
    /\ w_in.aois.at[CS1].ee = "error"
    /\ w_out.val.d[CS1] = NoneObj
    /\ w_out.val.d[<<"X">>].k = "dict"
    /\ w_out.val.d[<<"X">>].d.water_yield_per_acre_usd.v > 0
    /\ WaterPair(CS1 \o LLP, w_out.val) = WaterFallback
    /\ WaterPair(<<"X">> \o LLP, w_out.val) # WaterFallback

(***************************************************************************)
(* Properties of exports and plots (checked under SpecReport).             *)
(***************************************************************************)
Plotted == op.k \in {"plot_distributions", "plot_boxplots"}

\* C26: export_results writes a file only if a run_monte_carlo call on the
\* calculator had returned before it; a plot call draws only the sample
\* sequences of a run that returned; before the first run that returns,
\* each of the three only prints its notice, writing and drawing nothing.
C26_ReportsOnlyCompletedRuns ==
    /\ (op.k = "export_results" /\ op.wrote.k # "none") => op.completed > 0
    /\ (Plotted /\ op.drew # <<>>) => op.completed > 0 /\ op.last = "none"
    /\ (op.k # "none" /\ op.completed = 0)
         => op.notice /\ op.wrote.k = "none" /\ op.drew = <<>>

\* the part of C26 about export_results, which the code keeps
C26_ExportOnlyAfterCompletedRun ==
    op.k = "export_results" =>
      /\ op.wrote.k # "none" => op.completed > 0
      /\ op.completed = 0 => op.notice /\ op.wrote.k = "none"

\* a plot made after a run that raised in its second zone, no run having
\* returned: the samples of the first zone are drawn and no notice is
\* printed
C26_PlotOfFailedRun ==
    /\ op.k = "plot_distributions"
    /\ op.completed = 0
    /\ op.last = "TypeError"
    /\ ~op.notice
    /\ Len(op.drew) = 1
    /\ op.drew[1].Case = ZoneA
    /\ results.k = "none"

(***************************************************************************)
(* Properties of the resolver on partial overrides and on the water key    *)
(* (checked under SpecResolver).                                           *)
(***************************************************************************)
\* the constants of the claim, in thousandths
FixedConstants ==
    [E_Pt |-> Tuple2(PyFloat(25000), PyFloat(3000)),
     g |-> Tuple2(PyFloat(200000), PyFloat(30000)),
     endangered_species_WTP |-> Tuple2(PyFloat(13370), PyFloat(2000)),
     R_t_lease |-> <<200000, 150000, 100000, 50000, 25000>>,
     T_lease |-> Fixed(PyInt(5)),
     r_lease |-> Fixed(PyFloat(50)),
     epsilon_t |-> Fixed(PyInt(0))]

\* C27: for a zone with an entry in user_params, every economic field
\* missing from the entry resolves to its fixed constant whatever the zone
\* identifier, and never to the zone's class row; for a zone without an
\* entry, epsilon_t resolves to the scalar 0.
C27_MissingFieldsFromConstants ==
    Returned =>
      \A z \in CallZones :
        IF HasOverride(z)
        THEN \A f \in EconFields \ DOMAIN r_in.user_params.d[z] :
               r_out.val.at[z][f] = FixedConstants[f]
        ELSE r_out.val.at[z].epsilon_t = Fixed(PyInt(0))

C27_Witness ==
    /\ Returned
    /\ r_in.biomass_stats.order = <<CS1 \o LLP, CS2 \o CS1>>
    /\ HasOverride(CS1 \o LLP)
    /\ "g" \notin DOMAIN r_in.user_params.d[CS1 \o LLP]
    /\ r_out.val.at[CS1 \o LLP].g = Tuple2(PyFloat(200000), PyFloat(30000))
    /\ r_out.val.at[CS1 \o LLP].g # ClassRow(CS1 \o LLP).g
    /\ r_out.val.at[CS1 \o LLP].r_lease # ClassRow(CS1 \o LLP).r_lease
    /\ ~HasOverride(CS2 \o CS1)
    /\ r_out.val.at[CS2 \o CS1].epsilon_t = Fixed(PyInt(0))

\* the water pair the call resolved for zone z
WaterOf(z) == r_out.val.at[z].water_quality_value

\* C28: the water-yield entry of a zone is the one under the zone
\* identifier with '_LLP' removed: a zone whose identifier contains '_LLP'
\* and whose stripped name has no entry gets (100.0, 2.0) even when there is
\* an entry under the full identifier, an entry under the stripped name is
\* used, and two zones with the same stripped name get the same pair.
C28_WaterUnderStrippedName ==
    Returned =>
      /\ \A z \in CallZones :
           /\ (z # StrippedName(z)
                 /\ NoWaterEntry(r_in.water_yield_stats, StrippedName(z)))
                => WaterOf(z) = Tuple2(PyFloat(100000), PyFloat(2000))
           /\ HasWaterMean(r_in.water_yield_stats, StrippedName(z))
                => WaterOf(z)
                     = WaterPairOf(r_in.water_yield_stats.d[StrippedName(z)].d)
      /\ \A y, z \in CallZones :
           StrippedName(y) = StrippedName(z) => WaterOf(y) = WaterOf(z)

C28_Witness ==
    /\ Returned
    /\ r_in.biomass_stats.order = << <<"X">> \o LLP, <<"X">> >>
    /\ HasWaterMean(r_in.water_yield_stats, <<"X">> \o LLP)
    /\ HasWaterMean(r_in.water_yield_stats, <<"X">>)
    /\ r_in.water_yield_stats.d[<<"X">> \o LLP] # r_in.water_yield_stats.d[<<"X">>]
    /\ WaterOf(<<"X">> \o LLP) = WaterPairOf(r_in.water_yield_stats.d[<<"X">>].d)
    /\ WaterOf(<<"X">> \o LLP) = WaterOf(<<"X">>)

\* an entry under the full identifier of a zone with '_LLP' and none under
\* its stripped name: the fallback pair is resolved
C28_FullIdEntryIgnored ==
    /\ Returned
    /\ CS1 \o LLP \in CallZones
    /\ HasWaterMean(r_in.water_yield_stats, CS1 \o LLP)
    /\ NoWaterEntry(r_in.water_yield_stats, CS1)
    /\ WaterOf(CS1 \o LLP) = Tuple2(PyFloat(100000), PyFloat(2000))

(***************************************************************************)
(* Properties of the two fields a run leaves on the calculator (checked    *)
(* under Spec).                                                            *)
(***************************************************************************)
\* the latest action was a run_monte_carlo call that returned
JustReturned == Ran /\ runs > 0 /\ ret.exc = "none"

\* the acreage input holds for the zone something other than zero
NonZeroAcreage(z) ==
    /\ z \in DOMAIN call.args.case_acres
    /\ ~(IsNumber(call.args.case_acres[z]) /\ call.args.case_acres[z].v = 0)

\* the statistics of the row are those of the sample sequence
StatisticsOf(row, samples) ==
    /\ row.Mean_TEV = Mean(samples)
    /\ row.Std_TEV = Std(samples)
    /\ row.Median_TEV = Percentile(samples, 50)
    /\ row.Q25_TEV = Percentile(samples, 25)
    /\ row.Q75_TEV = Percentile(samples, 75)
    /\ row.Min_TEV = Sorted(samples)[1]
    /\ row.Max_TEV = Sorted(samples)[Len(samples)]

\* C29: after a run_monte_carlo call that returns, self.results and
\* self.simulation_results have the same length, the same Case at every
\* position and no Case twice; their zones are the zones of the biomass
\* input with non-zero acreage, in enumeration order; every row holds the
\* statistics of the sample sequence stored at its position, which has
\* num_simulations elements.
C29_FieldsDescribeSameRun ==
    JustReturned =>
      /\ results.k = "table" /\ simulation_results.k = "list"
      /\ Len(results.rows) = Len(simulation_results.items)
      /\ CasesOf(results.rows) = CasesOf(simulation_results.items)
      /\ \A i, j \in 1..Len(results.rows) :
           i # j => results.rows[i].Case # results.rows[j].Case
      /\ CasesOf(results.rows)
           = SelectSeq(call.args.biomass_stats.order, NonZeroAcreage)
      /\ \A i \in 1..Len(results.rows) :
           /\ Len(simulation_results.items[i].TEV) = call.args.num_simulations
           /\ StatisticsOf(results.rows[i], simulation_results.items[i].TEV)

C29_Witness ==
    /\ JustReturned
    /\ call.args.biomass_stats.order = <<ZoneB, ZoneA>>
    /\ ~NonZeroAcreage(ZoneB)
    /\ ret.warned = <<ZoneB>>
    /\ CasesOf(results.rows) = <<ZoneA>>
    /\ CasesOf(simulation_results.items) = <<ZoneA>>
    /\ results.rows[1].Mean_TEV = simulation_results.items[1].TEV[1]

(***************************************************************************)
(* Skipped zones and the draws of the zones after them (checked under      *)
(* Spec).                                                                  *)
(***************************************************************************)
\* the latest call with the skipped zones removed from the biomass input
ArgsWithoutSkipped ==
    [call.args EXCEPT !.biomass_stats =
        [order |-> ProcessedOrder(call.args),
         at |-> [z \in Range(ProcessedOrder(call.args)) |->
                   call.args.biomass_stats.at[z]]]]

\* the run has the rows and the sample sequences of the latest run
SameRowsAndSamples(run) ==
    /\ run.exc = "none"
    /\ run.val = ret.val
    /\ run.simulation_results = ret.sims

\* the number of draws the zone of row j consumes
DrawsOfRow(j) == DrawsThrough(j) - DrawsThrough(j - 1)

\* a skipped zone consumes no draw: from the same generator state the
\* run without the zero-acreage zones has the same rows and the same sample
\* sequences as the run with them, wherever they are enumerated; every
\* processed zone consumes num_simulations draws per pair-valued field, at
\* least one, so that the first draw of each zone after it is later in the
\* stream by that number, which grows with num_simulations.
C30_SkippedZoneDrawsNothingFromSameState ==
    (Ran /\ ret.exc = "none") =>
      /\ SameRowsAndSamples(run_monte_carlo(ArgsWithoutSkipped, call.start,
                                            NoTable, NoList))
      /\ \A j \in 1..Len(Rows) :
           /\ DrawsOfRow(j) = call.args.num_simulations
                                * PairsAmong(RowParams(j), Len(StochasticFields))
           /\ DrawsOfRow(j) >= call.args.num_simulations
           /\ Samples(j) = calculate_tev(RowParams(j), Rows[j].Acres,
                               call.args.num_simulations,
                               Advance(call.start, DrawsThrough(j - 1))).vals
      /\ runs > 0 => rng = Advance(call.start, DrawsThrough(Len(Rows)))

C30_SkippedZoneFirst ==
    /\ Ran /\ ret.exc = "none" /\ runs > 0
    /\ call.args.biomass_stats.order = <<ZoneB, ZoneA>>
    /\ ZoneB \in DOMAIN call.args.case_acres
    /\ IsZeroAcres(call.args.case_acres[ZoneB])
    /\ ret.warned = <<ZoneB>>
    /\ ProcessedOrder(call.args) = <<ZoneA>>
    /\ CasesOf(Rows) = <<ZoneA>>
    /\ rng = Advance(call.start, 6)
    /\ rng # call.start

\* a run of two processed zones: the second zone starts num_simulations
\* times six draws after the first
C30_SecondZoneShifted ==
    /\ Ran /\ ret.exc = "none"
    /\ call.args.num_simulations = MaxSims
    /\ Len(Rows) = 2
    /\ DrawsThrough(1) = 6 * MaxSims
    /\ Advance(call.start, DrawsThrough(1)) # call.start

\* the two sets of arguments differ at most in zones that are skipped: the
\* processed zones, their measurements and acreages, and every other input
\* are the same
SameButSkipped(a, b) ==
    /\ ProcessedOrder(a) = ProcessedOrder(b)
    /\ \A z \in Range(ProcessedOrder(a)) :
         /\ a.biomass_stats.at[z] = b.biomass_stats.at[z]
         /\ a.case_acres[z] = b.case_acres[z]
    /\ a.emissions_stats = b.emissions_stats
    /\ a.water_yield_stats = b.water_yield_stats
    /\ a.user_params = b.user_params
    /\ a.carbon_credit_price = b.carbon_credit_price
    /\ a.num_simulations = b.num_simulations

\* C30: for a fixed seed, two runs whose inputs differ only in zones of
\* zero acreage, wherever they are enumerated, have the same summary rows
\* and the same sample sequences for the processed zones (checked under
\* SpecRuns).
C30_SkippedZonesChangeNothing ==
    (/\ RanTwice
     /\ prev.call.seed = call.seed
     /\ prev.ret.exc = "none" /\ ret.exc = "none"
     /\ SameButSkipped(prev.call.args, call.args))
      => /\ prev.ret.val = ret.val
         /\ prev.ret.sims = ret.sims

\* two runs on calculators just constructed with the same seed, one with a
\* skipped zone enumerated first: same rows, same samples
C30_SameOnNewCalculators ==
    /\ RanTwice
    /\ prev.call.seed = call.seed
    /\ prev.call.start = call.start
    /\ prev.call.args # call.args
    /\ SameButSkipped(prev.call.args, call.args)
    /\ ret.warned = <<ZoneB>>
    /\ prev.ret.val = ret.val
    /\ prev.ret.sims = ret.sims

\* the same two runs made one after the other on one calculator: the
\* samples differ
C30_DifferOnSameCalculator ==
    /\ RanTwice
    /\ prev.call.seed = call.seed
    /\ runs = 2
    /\ prev.call.args # call.args
    /\ SameButSkipped(prev.call.args, call.args)
    /\ ret.warned = <<ZoneB>>
    /\ prev.ret.sims # ret.sims

====
